---------------------------- MODULE Spec2Model ----------------------------
(***************************************************************************)
(* Model of the news-digest pipeline of newsletter.py / scrapers.py /      *)
(* date_filter.py: key normalization, stage-1 exact grouping, stage-2      *)
(* similarity merging, representative selection, cross-category            *)
(* suppression and publish-date resolution.                                *)
(*                                                                         *)
(* Text is a sequence of one-character strings.  Characters stand for      *)
(* their class: "a".."z" lower-case letters (Hangul syllables behave the   *)
(* same under every regex used), "A".."Z" upper-case letters, "0".."9"     *)
(* digits, " " white space, "-" any other punctuation.                     *)
(***************************************************************************)
EXTENDS Integers, Sequences, FiniteSets, TLC

VARIABLES
    pc,               \* position of the run
    articles,         \* input of dedupe_and_group_articles (arrival order)
    threshold,        \* similarity threshold, in hundredths
    stage1_groups,    \* list(exact_map.values()): groups of article indices
    gi,               \* index of the next stage-1 group of the stage-2 loop
    buckets,          \* bucket key -> list of cluster ids (positions in merged_groups)
    merged_groups,    \* clusters: lists of article indices
    representatives,  \* output: [rep |-> index, duplicates |-> list of entries]
    category_lists,   \* input of remove_cross_category_duplicates
    ci,               \* index of the next category list
    seen,             \* set of NormalizedKeys seen so far
    out,              \* output lists of remove_cross_category_duplicates
    title,            \* input of _normalize_title
    nt1,              \* _normalize_title(title)
    nt2,              \* _normalize_title(nt1)
    url_base,         \* host and path shared by url1 and url2
    deco1, deco2,     \* what url1 / url2 add to the base
    url1, url2,       \* inputs of _normalize_url
    nurl1, nurl2,     \* _normalize_url(url1), _normalize_url(url2)
    now,              \* the wall clock, _safe_now(tz): [day, sec]
    cfg_hour,         \* cfg["newsletter_publish_hour"]
    origin,           \* which fetcher the item comes from
    time_text,        \* the time text of a Naver search result
    feed_date,        \* the date field of a feed entry or an OpenAPI item
    fetched,          \* whether the fetcher appended an Article for the item
    elapsed,          \* clock steps since the fetch
    published,        \* Article.published
    kept,             \* whether filter_yesterday_articles keeps the Article
    rec_source,       \* input of _source_priority: the source of a record
    other_source,     \* the source of another record
    prio,             \* _source_priority(rec_source)
    other_prio,       \* _source_priority(other_source)
    a_title,          \* a.title of the article refine_article_summaries is at
    a_summary,        \* a.summary before the refinement
    a_link,           \* a.link
    a_is_naver,       \* a.is_naver
    client,           \* whether _get_client() returns a client
    summary_out,      \* a.summary after the refinement
    rule,             \* the return of should_exclude_article taken at its last call
    bd_text,          \* the text handed to extract_best_date
    bd_today,         \* _now_kst().date() as [y, m, d]
    bd_result,        \* what extract_best_date returned
    sim_base,         \* the base record of a group
    sim_ex,           \* the first record of a candidate cluster
    sim_thr,          \* threshold, in hundredths
    sim_hit,          \* sim >= threshold
    dd_articles,      \* the list given to deduplicate_articles
    dd_links,         \* a.link of each record after the call
    dd_out,           \* positions of the records returned
    br_pools,         \* the five lists given to select_articles_for_brief, in the order of pools
    br_max,           \* max_items
    br_selected,      \* selected, as pairs of pool and index
    br_out,           \* what is returned, as pairs of pool and index
    fa_sources,       \* the name of each of cfg's news_sources
    fa_keywords,      \* cfg's keywords
    fa_creds,         \* naver_client_id and naver_client_secret are set
    fa_pos,           \* the pair of source and keyword the loops are at
    fa_calls,         \* the calls of the fetchers for the latest pair
    fa_all            \* all_articles

clusterVars == <<articles, threshold, stage1_groups, gi, buckets, merged_groups,
                 representatives>>
crossVars   == <<category_lists, ci, seen, out>>
titleVars   == <<title, nt1, nt2>>
urlVars     == <<url_base, deco1, deco2, url1, url2, nurl1, nurl2>>
dateVars    == <<now, cfg_hour, origin, time_text, feed_date, fetched, elapsed,
                 published, kept>>
tierVars    == <<rec_source, other_source, prio, other_prio>>
summaryVars == <<a_title, a_summary, a_link, a_is_naver, client, summary_out>>
excludeVars  == <<rule>>
bestDateVars  == <<bd_text, bd_today, bd_result>>
similarVars  == <<sim_base, sim_ex, sim_thr, sim_hit>>
dedupVars   == <<dd_articles, dd_links, dd_out>>
briefVars   == <<br_pools, br_max, br_selected, br_out>>
fetchVars   == <<fa_sources, fa_keywords, fa_creds, fa_pos, fa_calls, fa_all>>
vars        == <<pc, clusterVars, crossVars, titleVars, urlVars, dateVars,
                 tierVars,
                 summaryVars,
                 excludeVars,
                 bestDateVars,
                 similarVars,
                 dedupVars,
                 briefVars,
                 fetchVars>>

-----------------------------------------------------------------------------
(* Bounds *)

MaxArticles == 3     \* length of the input of dedupe_and_group_articles
MaxListed   == 3     \* records over all category lists
MaxTitleLen == 4     \* length of a raw title
MaxPathSegs == 2     \* path segments of a URL
MaxElapsed  == 2     \* clock steps between the fetch and the day filter

\* threshold: the default of dedupe_and_group_articles and what main passes
DefaultThreshold == 73
MainThreshold    == 60

\* main hands five category lists to remove_cross_category_duplicates
NumCategoryLists == 5

-----------------------------------------------------------------------------
(* Characters and strings *)

LowerLetters == {"a", "b", "c", "d", "e", "f", "g", "h", "i", "j", "k", "l", "m",
                 "n", "o", "p", "q", "r", "s", "t", "u", "v", "w", "x", "y", "z"}
UpperLetters == {"A", "B", "C", "D", "E", "F", "G", "H", "I", "J", "K", "L", "M",
                 "N", "O", "P", "Q", "R", "S", "T", "U", "V", "W", "X", "Y", "Z"}
Digits       == {"0", "1", "2", "3", "4", "5", "6", "7", "8", "9"}

LowerOf == [c \in UpperLetters |->
    CASE c = "A" -> "a" [] c = "B" -> "b" [] c = "C" -> "c" [] c = "D" -> "d"
      [] c = "E" -> "e" [] c = "F" -> "f" [] c = "G" -> "g" [] c = "H" -> "h"
      [] c = "I" -> "i" [] c = "J" -> "j" [] c = "K" -> "k" [] c = "L" -> "l"
      [] c = "M" -> "m" [] c = "N" -> "n" [] c = "O" -> "o" [] c = "P" -> "p"
      [] c = "Q" -> "q" [] c = "R" -> "r" [] c = "S" -> "s" [] c = "T" -> "t"
      [] c = "U" -> "u" [] c = "V" -> "v" [] c = "W" -> "w" [] c = "X" -> "x"
      [] c = "Y" -> "y" [] OTHER -> "z"]

\* str.lower() on one character
LowerChar(c) == IF c \in UpperLetters THEN LowerOf[c] ELSE c

\* str.lower()
Lower(s) == [i \in 1..Len(s) |-> LowerChar(s[i])]

\* \s of the regexes, and what str.strip() removes
IsSpace(c) == c = " "

\* \w of the regexes (the Hangul range the class adds is inside \w)
IsWord(c) == c \in LowerLetters \cup UpperLetters \cup Digits \cup {"_"}

RECURSIVE LStrip(_)
LStrip(s) == IF s # <<>> /\ IsSpace(Head(s)) THEN LStrip(Tail(s)) ELSE s

RECURSIVE RStrip(_)
RStrip(s) ==
    IF s # <<>> /\ IsSpace(s[Len(s)]) THEN RStrip(SubSeq(s, 1, Len(s) - 1)) ELSE s

\* str.strip()
Strip(s) == RStrip(LStrip(s))

\* position of the first c in s at or after position from, 0 when there is none
RECURSIVE Find(_, _, _)
Find(s, c, from) ==
    IF from > Len(s) THEN 0
    ELSE IF s[from] = c THEN from
    ELSE Find(s, c, from + 1)

\* re.sub(r"\[[^\]]+\]", " ", s): "[", one or more characters other than "]", "]"
RECURSIVE SubBracketed(_)
SubBracketed(s) ==
    IF s = <<>> THEN <<>>
    ELSE LET j == Find(s, "]", 2)
         IN IF Head(s) = "[" /\ j >= 3
            THEN <<" ">> \o SubBracketed(SubSeq(s, j + 1, Len(s)))
            ELSE <<Head(s)>> \o SubBracketed(Tail(s))

\* re.sub(r"\([^)]*\)", " ", s): "(", any characters other than ")", ")"
RECURSIVE SubParenthesized(_)
SubParenthesized(s) ==
    IF s = <<>> THEN <<>>
    ELSE LET j == Find(s, ")", 2)
         IN IF Head(s) = "(" /\ j >= 2
            THEN <<" ">> \o SubParenthesized(SubSeq(s, j + 1, Len(s)))
            ELSE <<Head(s)>> \o SubParenthesized(Tail(s))

\* re.sub(r"[^\w<Hangul>]+", " ", s): every run of non-word characters becomes one space
RECURSIVE SubNonWord(_)
SubNonWord(s) ==
    IF s = <<>> THEN <<>>
    ELSE IF IsWord(Head(s)) THEN <<Head(s)>> \o SubNonWord(Tail(s))
    ELSE IF Len(s) >= 2 /\ ~IsWord(s[2]) THEN SubNonWord(Tail(s))
    ELSE <<" ">> \o SubNonWord(Tail(s))

\* re.sub(r"\s+", " ", s): every run of white space becomes one space
RECURSIVE SubSpaces(_)
SubSpaces(s) ==
    IF s = <<>> THEN <<>>
    ELSE IF ~IsSpace(Head(s)) THEN <<Head(s)>> \o SubSpaces(Tail(s))
    ELSE IF Len(s) >= 2 /\ IsSpace(s[2]) THEN SubSpaces(Tail(s))
    ELSE <<" ">> \o SubSpaces(Tail(s))

-----------------------------------------------------------------------------
(* newsletter.py (A): title normalization *)

\* _normalize_title with the final .strip() forgotten
NormalizeTitleNoFinalStrip(t) ==
    SubSpaces(SubNonWord(SubParenthesized(SubBracketed(Strip(Lower(t))))))

_normalize_title(t) ==
    Strip(SubSpaces(SubNonWord(SubParenthesized(SubBracketed(Strip(Lower(t)))))))

\* _normalize_text
_normalize_text(t) == SubSpaces(Strip(Lower(t)))

-----------------------------------------------------------------------------
(* newsletter.py (A): URL normalization.  urlparse is urllib.parse's.     *)

SchemeChars == LowerLetters \cup UpperLetters \cup Digits \cup {"+", "-", "."}

\* urllib.parse.uses_params
UsesParams ==
    {<<>>, <<"f","t","p">>, <<"h","d","l">>, <<"p","r","o","s","p","e","r","o">>,
     <<"h","t","t","p">>, <<"i","m","a","p">>, <<"h","t","t","p","s">>,
     <<"s","h","t","t","p">>, <<"r","t","s","p">>, <<"r","t","s","p","s">>,
     <<"r","t","s","p","u">>, <<"s","i","p">>, <<"s","i","p","s">>, <<"m","m","s">>,
     <<"s","f","t","p">>, <<"t","e","l">>}

\* position of the last c in s, 0 when there is none
RECURSIVE RFind(_, _)
RFind(s, c) ==
    IF s = <<>> THEN 0
    ELSE IF s[Len(s)] = c THEN Len(s)
    ELSE RFind(SubSeq(s, 1, Len(s) - 1), c)

Min2(a, b) == IF a <= b THEN a ELSE b

\* _splitnetloc(url, 2): position of the first of "/", "?", "#" at or after
\* position 3, Len(url) + 1 when there is none
NetlocEnd(url) ==
    LET at(c) == IF Find(url, c, 3) = 0 THEN Len(url) + 1 ELSE Find(url, c, 3)
    IN Min2(at("/"), Min2(at("?"), at("#")))

\* urlsplit, first half: the scheme is what precedes the first ":" when that is
\* a letter followed by scheme characters
SplitScheme(url0) ==
    LET url == LStrip(url0)
        i   == Find(url, ":", 1)
    IN IF i > 1 /\ url[1] \in LowerLetters \cup UpperLetters
          /\ \A k \in 1..(i - 1) : url[k] \in SchemeChars
       THEN [scheme |-> Lower(SubSeq(url, 1, i - 1)), rest |-> SubSeq(url, i + 1, Len(url))]
       ELSE [scheme |-> <<>>, rest |-> url]

\* urlsplit, second half: netloc after "//", then fragment and query cut off
SplitRest(rest) ==
    LET hasNet == Len(rest) >= 2 /\ rest[1] = "/" /\ rest[2] = "/"
        e      == NetlocEnd(rest)
        netloc == IF hasNet THEN SubSeq(rest, 3, e - 1) ELSE <<>>
        u1     == IF hasNet THEN SubSeq(rest, e, Len(rest)) ELSE rest
        h      == Find(u1, "#", 1)
        u2     == IF h = 0 THEN u1 ELSE SubSeq(u1, 1, h - 1)
        q      == Find(u2, "?", 1)
        u3     == IF q = 0 THEN u2 ELSE SubSeq(u2, 1, q - 1)
    IN [netloc   |-> netloc,
        path     |-> u3,
        query    |-> IF q = 0 THEN <<>> ELSE SubSeq(u2, q + 1, Len(u2)),
        fragment |-> IF h = 0 THEN <<>> ELSE SubSeq(u1, h + 1, Len(u1))]

\* _splitparams: the path up to the first ";" of its last segment
SplitParams(path) ==
    LET sl == RFind(path, "/")
        i  == Find(path, ";", IF sl = 0 THEN 1 ELSE sl)
    IN IF i = 0 THEN path ELSE SubSeq(path, 1, i - 1)

\* hexadecimal digits
HexDigits == Digits \cup {"a", "b", "c", "d", "e", "f", "A", "B", "C", "D", "E", "F"}

\* s is a list of groups of one to four hexadecimal digits, ":" between them
HextetList(s) ==
    /\ s # <<>> /\ s[1] # ":" /\ s[Len(s)] # ":"
    /\ \A i \in 1..Len(s) : s[i] # ":" => s[i] \in HexDigits
    /\ \A i \in 1..(Len(s) - 1) : ~(s[i] = ":" /\ s[i + 1] = ":")
    /\ \A i \in 1..(Len(s) - 4) : \E k \in i..(i + 4) : s[k] = ":"

HextetCount(s) ==
    IF s = <<>> THEN 0 ELSE 1 + Cardinality({i \in 1..Len(s) : s[i] = ":"})

\* ipaddress.ip_address(s) is an IPv6Address (no embedded IPv4, no scope id)
ValidIPv6(s) ==
    LET dd == {i \in 1..(Len(s) - 1) : s[i] = ":" /\ s[i + 1] = ":"}
    IN IF dd = {} THEN HextetList(s) /\ HextetCount(s) = 8
       ELSE /\ Cardinality(dd) = 1
            /\ LET i     == CHOOSE x \in dd : TRUE
                   left  == SubSeq(s, 1, i - 1)
                   right == SubSeq(s, i + 2, Len(s))
               IN /\ left = <<>> \/ HextetList(left)
                  /\ right = <<>> \/ HextetList(right)
                  /\ HextetCount(left) + HextetCount(right) <= 7

\* _check_bracketed_host(hostname) returns: an IPvFuture address
\* (v<hex>.<something>) or an IPv6 address; an IPv4 address or anything else
\* raises ValueError
BracketedHostOk(h) ==
    IF h # <<>> /\ Head(h) = "v"
    THEN LET dot == Find(h, ".", 1)
         IN /\ dot > 2 /\ dot < Len(h)
            /\ \A k \in 2..(dot - 1) : h[k] \in HexDigits
    ELSE ValidIPv6(h)

\* what the netloc has between its first "[" and the first "]" after it
BracketedHost(netloc) ==
    LET aft == SubSeq(netloc, Find(netloc, "[", 1) + 1, Len(netloc))
    IN IF Find(aft, "]", 1) = 0 THEN aft ELSE SubSeq(aft, 1, Find(aft, "]", 1) - 1)

\* urlsplit raises ValueError for the netloc: it has one of "[" and "]" without
\* the other, or what it has in brackets is no IPv6 or IPvFuture address
NetlocRaises(netloc) ==
    \/ (Find(netloc, "[", 1) # 0) # (Find(netloc, "]", 1) # 0)
    \/ /\ Find(netloc, "[", 1) # 0
       /\ Find(netloc, "]", 1) # 0
       /\ ~BracketedHostOk(BracketedHost(netloc))

\* urlparse(url) raises ValueError
UrlparseRaises(url) == NetlocRaises(SplitRest(SplitScheme(url).rest).netloc)

\* urlparse(url): scheme, netloc and path (params, query, fragment are unused)
urlparse(url) ==
    LET s == SplitScheme(url)
        r == SplitRest(s.rest)
    IN [scheme |-> s.scheme,
        netloc |-> r.netloc,
        path   |-> IF s.scheme \in UsesParams THEN SplitParams(r.path) ELSE r.path]

\* str.rstrip("/")
RECURSIVE RStripSlash(_)
RStripSlash(s) ==
    IF s # <<>> /\ s[Len(s)] = "/" THEN RStripSlash(SubSeq(s, 1, Len(s) - 1)) ELSE s

Https == <<"h", "t", "t", "p", "s">>

\* _normalize_url with the query string left in the path
NormalizeUrlKeepQuery(url) ==
    IF url = <<>> THEN <<>>
    ELSE LET s == SplitScheme(url)
             r == SplitRest(s.rest)
         IN (IF s.scheme = <<>> THEN Https ELSE s.scheme) \o <<":", "/", "/">>
            \o Lower(r.netloc) \o RStripSlash(r.path)
            \o (IF r.query = <<>> THEN <<>> ELSE <<"?">> \o r.query)

_normalize_url(url) ==
    IF url = <<>> THEN <<>>
    ELSE LET p == urlparse(url)
         IN (IF p.scheme = <<>> THEN Https ELSE p.scheme) \o <<":", "/", "/">>
            \o Lower(p.netloc) \o RStripSlash(p.path)

-----------------------------------------------------------------------------
(* newsletter.py (A): similarity and bucket keys *)

\* length of the longest common prefix of a and b
RECURSIVE CommonPrefixLen(_, _)
CommonPrefixLen(a, b) ==
    IF a = <<>> \/ b = <<>> \/ Head(a) # Head(b) THEN 0
    ELSE 1 + CommonPrefixLen(Tail(a), Tail(b))

\* difflib.SequenceMatcher(None, a, b): the number of matched characters.  The
\* longest matching block is taken (the earliest in a, then the earliest in b,
\* among the longest), then the parts left and right of it are matched.  The
\* popularity heuristic of difflib only acts on texts of 200 characters or more.
RECURSIVE Matches(_, _)
Matches(a, b) ==
    IF a = <<>> \/ b = <<>> THEN 0
    ELSE LET Pos  == (1..Len(a)) \X (1..Len(b))
             K(p) == CommonPrefixLen(SubSeq(a, p[1], Len(a)), SubSeq(b, p[2], Len(b)))
             best == CHOOSE p \in Pos :
                        \A q \in Pos :
                            \/ K(q) < K(p)
                            \/ K(q) = K(p) /\ (p[1] < q[1] \/ (p[1] = q[1] /\ p[2] <= q[2]))
             k    == K(best)
         IN IF k = 0 THEN 0
            ELSE k + Matches(SubSeq(a, 1, best[1] - 1), SubSeq(b, 1, best[2] - 1))
                   + Matches(SubSeq(a, best[1] + k, Len(a)), SubSeq(b, best[2] + k, Len(b)))

\* _similarity without its test for an empty text: SequenceMatcher.ratio() of
\* two empty texts is 1.0
SimilarityWithoutEmptyTest(a0, b0, thr) ==
    LET a == _normalize_text(a0)
        b == _normalize_text(b0)
    IN IF a = <<>> /\ b = <<>> THEN 100 >= thr
       ELSE 200 * Matches(a, b) >= thr * (Len(a) + Len(b))

\* _similarity(a, b) >= thr / 100, with ratio() = 2 * matches / (len(a) + len(b))
SimilarityAtLeast(a0, b0, thr) ==
    LET a == _normalize_text(a0)
        b == _normalize_text(b0)
    IN IF a = <<>> \/ b = <<>> THEN 0 >= thr
       ELSE 200 * Matches(a, b) >= thr * (Len(a) + Len(b))

\* str.split(): the maximal runs of non-space characters
RECURSIVE Split(_)
Split(s) ==
    LET t == LStrip(s)
        e == Find(t, " ", 1)
    IN IF t = <<>> THEN <<>>
       ELSE IF e = 0 THEN <<t>>
       ELSE <<SubSeq(t, 1, e - 1)>> \o Split(SubSeq(t, e + 1, Len(t)))

\* " ".join(tokens)
RECURSIVE Join(_)
Join(tokens) ==
    IF tokens = <<>> THEN <<>>
    ELSE IF Len(tokens) = 1 THEN tokens[1]
    ELSE tokens[1] \o <<" ">> \o Join(Tail(tokens))

SelectLong(tokens) == SelectSeq(tokens, LAMBDA x : Len(x) >= 2)

\* _title_bucket_keys
_title_bucket_keys(t) ==
    LET tokens == SelectLong(Split(_normalize_title(t)))
    IN IF tokens = <<>> THEN {}
       ELSE {Join(SubSeq(tokens, 1, Min2(2, Len(tokens))))}
            \cup (IF Len(tokens) >= 3 THEN {Join(SubSeq(tokens, 1, 3))} ELSE {})
            \cup {tokens[1]}

-----------------------------------------------------------------------------
(* newsletter.py (B): the representative of a group *)

\* The nine trade-press names of INDUSTRY_SOURCES are Hangul; <<"H","C">> stands
\* for them.  TIER2_SOURCES: its Latin-script names.
INDUSTRY_SOURCES == {<<"H", "C">>}
TIER2_SOURCES ==
    {<<"Y","T","N">>, <<"S","B","S">>, <<"K","B","S">>, <<"M","B","C">>, <<"J","T","B","C">>}

\* _source_priority with an empty source ranked like any unlisted source
SourcePriorityEmptyAsOther(source) ==
    LET s == Strip(source)
    IN IF s \in INDUSTRY_SOURCES THEN 1
       ELSE IF s \in TIER2_SOURCES THEN 2
       ELSE 3

_source_priority(source) ==
    LET s == Strip(source)
    IN IF s \in INDUSTRY_SOURCES THEN 1
       ELSE IF s \in TIER2_SOURCES THEN 2
       ELSE IF s # <<>> THEN 3
       ELSE 99

\* score(a) < score(b) for score = (_source_priority, -len(_normalize_title))
ScoreLess(a, b) ==
    \/ _source_priority(a.source) < _source_priority(b.source)
    \/ /\ _source_priority(a.source) = _source_priority(b.source)
       /\ Len(_normalize_title(a.title)) > Len(_normalize_title(b.title))

\* _pick_representative with the last best member taken instead of the first
PickLastBest(arts, group) ==
    group[CHOOSE i \in 1..Len(group) :
        /\ \A j \in 1..Len(group) : ~ScoreLess(arts[group[j]], arts[group[i]])
        /\ \A j \in (i + 1)..Len(group) : ScoreLess(arts[group[i]], arts[group[j]])]

\* _pick_representative: sorted(group, key=score)[0]; the sort is stable, so the
\* first member with the least score.  group lists positions in arts.
_pick_representative(arts, group) ==
    group[CHOOSE i \in 1..Len(group) :
        /\ \A j \in 1..Len(group) : ~ScoreLess(arts[group[j]], arts[group[i]])
        /\ \A j \in 1..(i - 1) : ScoreLess(arts[group[i]], arts[group[j]])]

-----------------------------------------------------------------------------
(* newsletter.py (C): dedupe_and_group_articles *)

\* key = (url_key, title_key)
NormalizedKey(a) == <<_normalize_url(a.link), _normalize_title(a.title)>>

\* stage 1 keyed by the raw link and title, normalization forgotten
RawKey(a) == <<a.link, a.title>>

\* the key of exact_map
ExactKey(a) == NormalizedKey(a)

\* stage 1 with a record put at the front of its group
RECURSIVE ExactGroupsPrepend(_, _, _)
ExactGroupsPrepend(arts, i, groups) ==
    IF i > Len(arts) THEN groups
    ELSE LET hit == {g \in 1..Len(groups) : ExactKey(arts[groups[g][1]]) = ExactKey(arts[i])}
         IN ExactGroupsPrepend(arts, i + 1,
                IF hit = {} THEN Append(groups, <<i>>)
                ELSE [groups EXCEPT ![CHOOSE g \in hit : TRUE] = <<i>> \o @])

\* exact_map.setdefault(key, []).append(a) for the articles from position i on;
\* a dict keeps its keys in insertion order, so groups are in the order of their
\* first member
RECURSIVE ExactGroups(_, _, _)
ExactGroups(arts, i, groups) ==
    IF i > Len(arts) THEN groups
    ELSE LET hit == {g \in 1..Len(groups) : ExactKey(arts[groups[g][1]]) = ExactKey(arts[i])}
         IN ExactGroups(arts, i + 1,
                IF hit = {} THEN Append(groups, <<i>>)
                ELSE [groups EXCEPT ![CHOOSE g \in hit : TRUE] = Append(@, i)])

Perms(S) ==
    {f \in [1..Cardinality(S) -> S] : \A i, j \in 1..Cardinality(S) : i # j => f[i] # f[j]}

BucketGet(b, k) == IF k \in DOMAIN b THEN b[k] ELSE <<>>

\* cand_groups holding every cluster of every bucket, whatever its key
CandGroupsAll(b, order) ==
    LET ids == UNION {{b[k][p] : p \in 1..Len(b[k])} : k \in DOMAIN b}
    IN [i \in 1..Cardinality(ids) |->
           CHOOSE c \in ids : Cardinality({d \in ids : d < c}) = i - 1]

\* cand_groups with every cluster appended after those of the buckets
RECURSIVE CandGroupsThenAll(_, _)
CandGroupsThenAll(b, order) ==
    IF order = <<>> THEN CandGroupsAll(b, order)
    ELSE BucketGet(b, Head(order)) \o CandGroupsThenAll(b, Tail(order))

\* cand_groups: buckets.get(k, []) for k in bucket_keys, in the order the set
\* is iterated
RECURSIVE CandGroups(_, _)
CandGroups(b, order) ==
    IF order = <<>> THEN <<>>
    ELSE BucketGet(b, Head(order)) \o CandGroups(b, Tail(order))

\* uniq_cands: the first occurrence of every cluster of cand_groups
RECURSIVE UniqCands(_, _)
UniqCands(cands, seenRef) ==
    IF cands = <<>> THEN <<>>
    ELSE IF Head(cands) \in seenRef THEN UniqCands(Tail(cands), seenRef)
    ELSE <<Head(cands)>> \o UniqCands(Tail(cands), seenRef \cup {Head(cands)})

\* sim >= threshold for the base record of a group and the first record of a cluster
Similar(base, ex, thr) ==
    IF base.summary # <<>> /\ ex.summary # <<>>
    THEN SimilarityAtLeast(base.summary, ex.summary, thr)
    ELSE SimilarityAtLeast(base.title, ex.title, thr)

\* the scan that does not stop: the last cluster of uniq whose first record is
\* similar to base, 0 when none
RECURSIVE LastMatch(_, _, _, _, _)
LastMatch(arts, clusters, uniq, base, thr) ==
    IF uniq = <<>> THEN 0
    ELSE IF Similar(base, arts[clusters[uniq[Len(uniq)]][1]], thr) THEN uniq[Len(uniq)]
    ELSE LastMatch(arts, clusters, SubSeq(uniq, 1, Len(uniq) - 1), base, thr)

\* the first cluster of uniq whose first record is similar to base, 0 when none
RECURSIVE FirstMatch(_, _, _, _, _)
FirstMatch(arts, clusters, uniq, base, thr) ==
    IF uniq = <<>> THEN 0
    ELSE IF Similar(base, arts[clusters[Head(uniq)][1]], thr) THEN Head(uniq)
    ELSE FirstMatch(arts, clusters, Tail(uniq), base, thr)

\* the duplicates entry of a member
DupEntry(a) == [source |-> a.source, link |-> a.link, title |-> a.title]

\* stage 3 with the representative listed among its own duplicates
ClusterOfKeepRep(arts, group) ==
    [rep |-> _pick_representative(arts, group),
     duplicates |-> [i \in 1..Len(group) |-> DupEntry(arts[group[i]])]]

\* stage 3 leaving out of duplicates every member that has the key of the
\* representative
ClusterOfDropRepKey(arts, group) ==
    LET rep    == _pick_representative(arts, group)
        others == SelectSeq(group,
                      LAMBDA i : NormalizedKey(arts[i]) # NormalizedKey(arts[rep]))
    IN [rep |-> rep,
        duplicates |-> [i \in 1..Len(others) |-> DupEntry(arts[others[i]])]]

\* stage 3 for one group: the representative and an entry for every other member
ClusterOf(arts, group) ==
    LET rep    == _pick_representative(arts, group)
        others == SelectSeq(group, LAMBDA i : i # rep)
    IN [rep |-> rep,
        duplicates |-> [i \in 1..Len(others) |-> DupEntry(arts[others[i]])]]

-----------------------------------------------------------------------------
(* Sample records: Article(title, link, source, summary) *)

HttpsPrefix == Https \o <<":", "/", "/">>

Article(t, l, src, sm) == [title |-> t, link |-> l, source |-> src, summary |-> sm]

\* A1, A2: one story, URLs differing in the query string only
A1 == Article(<<"a","b"," ","c","d">>, HttpsPrefix \o <<"n",".","a","/","p","?","q">>,
              <<"Y","T","N">>, <<"a","b","c","d">>)
A2 == Article(<<"a","b"," ","c","d">>, HttpsPrefix \o <<"n",".","a","/","p">>,
              <<"H","C">>, <<"a","b","c","d">>)
\* A3: the story of A1 at another outlet, with a bracketed prefix
A3 == Article(<<"[","x","]"," ","a","b"," ","c","d">>, HttpsPrefix \o <<"m",".","b","/","q">>,
              <<"z","z">>, <<"a","b","c","e">>)
\* A4: shares the bucket "ab" with A1; its summary is 0.6 similar to A1's
A4 == Article(<<"a","b"," ","e","f"," ","g","h">>, HttpsPrefix \o <<"m",".","b","/","r">>,
              <<>>, <<"a","b","c","x","y","z">>)
\* A5, A6: no link, and a title that normalizes to nothing
A5 == Article(<<>>, <<>>, <<"z","z">>, <<"x","y">>)
A6 == Article(<<"-">>, <<>>, <<"Y","T","N">>, <<"p","q">>)
\* A7: a title of one-letter tokens only
A7 == Article(<<"a"," ","b">>, HttpsPrefix \o <<"n",".","a","/","s">>,
              <<"z","z">>, <<"a","b","c","d">>)
\* A8, A9: no link, titles that normalize to the title of A1
A8 == Article(<<"A","B"," ","c","d">>, <<>>, <<"z","z">>, <<>>)
A9 == Article(<<"a","b"," "," ","c","d">>, <<>>, <<"H","C">>, <<"w","x","y","z">>)

SampleArticles == {A1, A2, A3, A4, A5, A6, A7, A8, A9}

\* the records handed to remove_cross_category_duplicates
ListedArticles == {A1, A2, A3}

SeqsUpTo(S, n) == UNION {[1..k -> S] : k \in 0..n}

-----------------------------------------------------------------------------
(* Idle values of the variables a specification does not use *)

IdleCluster ==
    /\ articles = <<>> /\ threshold = 0 /\ stage1_groups = <<>> /\ gi = 0
    /\ buckets = <<>> /\ merged_groups = <<>> /\ representatives = <<>>
IdleCross == category_lists = <<>> /\ ci = 0 /\ seen = {} /\ out = <<>>
IdleTitle == title = <<>> /\ nt1 = <<>> /\ nt2 = <<>>
IdleUrl ==
    /\ url_base = <<>> /\ deco1 = <<>> /\ deco2 = <<>>
    /\ url1 = <<>> /\ url2 = <<>> /\ nurl1 = <<>> /\ nurl2 = <<>>
IdleDate ==
    /\ now = <<>> /\ cfg_hour = <<>> /\ origin = "" /\ time_text = <<>>
    /\ feed_date = <<>> /\ fetched = FALSE /\ elapsed = 0
    /\ published = <<>> /\ kept = FALSE
IdleFetch == fa_sources = <<>> /\ fa_keywords = <<>> /\ fa_creds = FALSE /\ fa_pos = <<>> /\ fa_calls = <<>> /\ fa_all = <<>>
IdleBrief == br_pools = <<>> /\ br_max = 0 /\ br_selected = <<>> /\ br_out = <<>>
IdleDedup == dd_articles = <<>> /\ dd_links = <<>> /\ dd_out = <<>>
IdleSimilar == sim_base = <<>> /\ sim_ex = <<>> /\ sim_thr = 0 /\ sim_hit = FALSE
IdleBestDate == bd_text = <<>> /\ bd_today = <<>> /\ bd_result = <<>>
IdleExclude == rule = "none"
IdleSummary == a_title = <<>> /\ a_summary = <<>> /\ a_link = <<>> /\ a_is_naver = FALSE /\ client = FALSE /\ summary_out = <<>>
IdleTier == rec_source = <<>> /\ other_source = <<>> /\ prio = 0 /\ other_prio = 0

-----------------------------------------------------------------------------
(* Spec: one run of dedupe_and_group_articles *)

Init ==
    /\ pc = "start"
    /\ articles \in SeqsUpTo(SampleArticles, MaxArticles)
    /\ threshold \in {MainThreshold, DefaultThreshold}
    /\ stage1_groups = <<>> /\ gi = 0 /\ buckets = <<>>
    /\ merged_groups = <<>> /\ representatives = <<>>
    /\ IdleCross /\ IdleTitle /\ IdleUrl /\ IdleDate /\ IdleTier /\ IdleSummary /\ IdleExclude /\ IdleBestDate /\ IdleSimilar /\ IdleDedup /\ IdleBrief /\ IdleFetch

\* 1) the loop over articles that fills exact_map
Stage1 ==
    /\ pc = "start"
    /\ stage1_groups' = ExactGroups(articles, 1, <<>>)
    /\ gi' = 1
    /\ pc' = IF articles = <<>> THEN "stage3" ELSE "stage2"
    /\ UNCHANGED <<articles, threshold, buckets, merged_groups, representatives>>
    /\ UNCHANGED <<crossVars, titleVars, urlVars, dateVars, tierVars, summaryVars, excludeVars, bestDateVars, similarVars, dedupVars, briefVars, fetchVars>>

\* 2) one iteration of the loop over stage1_groups whose group is merged into an
\* existing cluster: existing_grp.extend(grp)
Stage2Merge ==
    /\ pc = "stage2"
    /\ LET grp  == stage1_groups[gi]
           base == articles[grp[1]]
       IN \E order \in Perms(_title_bucket_keys(base.title)) :
            LET uniq == UniqCands(CandGroups(buckets, order), {})
                hit  == FirstMatch(articles, merged_groups, uniq, base, threshold)
            IN /\ hit # 0
               /\ merged_groups' = [merged_groups EXCEPT ![hit] = @ \o grp]
               /\ buckets' = buckets
    /\ gi' = gi + 1
    /\ pc' = IF gi = Len(stage1_groups) THEN "stage3" ELSE "stage2"
    /\ UNCHANGED <<articles, threshold, stage1_groups, representatives>>
    /\ UNCHANGED <<crossVars, titleVars, urlVars, dateVars, tierVars, summaryVars, excludeVars, bestDateVars, similarVars, dedupVars, briefVars, fetchVars>>

\* 2) one iteration whose group matches no candidate: it founds a cluster and is
\* entered in the bucket of each of its keys
Stage2Found ==
    /\ pc = "stage2"
    /\ LET grp  == stage1_groups[gi]
           base == articles[grp[1]]
           keys == _title_bucket_keys(base.title)
       IN \E order \in Perms(keys) :
            LET uniq == UniqCands(CandGroups(buckets, order), {})
                hit  == FirstMatch(articles, merged_groups, uniq, base, threshold)
            IN /\ hit = 0
               /\ merged_groups' = Append(merged_groups, grp)
               /\ buckets' = [k \in DOMAIN buckets \cup keys |->
                                IF k \in keys
                                THEN Append(BucketGet(buckets, k), Len(merged_groups) + 1)
                                ELSE buckets[k]]
    /\ gi' = gi + 1
    /\ pc' = IF gi = Len(stage1_groups) THEN "stage3" ELSE "stage2"
    /\ UNCHANGED <<articles, threshold, stage1_groups, representatives>>
    /\ UNCHANGED <<crossVars, titleVars, urlVars, dateVars, tierVars, summaryVars, excludeVars, bestDateVars, similarVars, dedupVars, briefVars, fetchVars>>

\* stage 3 that also stores the normalized title in every representative
Stage3NormalizesRep ==
    /\ pc = "stage3"
    /\ representatives' =
          [c \in 1..Len(merged_groups) |-> ClusterOf(articles, merged_groups[c])]
    /\ articles' =
          [i \in 1..Len(articles) |->
              IF \E c \in 1..Len(merged_groups) :
                    _pick_representative(articles, merged_groups[c]) = i
              THEN [articles[i] EXCEPT !.title = _normalize_title(@)]
              ELSE articles[i]]
    /\ pc' = "done"
    /\ UNCHANGED <<threshold, stage1_groups, gi, buckets, merged_groups>>
    /\ UNCHANGED <<crossVars, titleVars, urlVars, dateVars, tierVars, summaryVars, excludeVars, bestDateVars, similarVars, dedupVars, briefVars, fetchVars>>

\* 3) the loop over merged_groups: pick the representative, attach duplicates
Stage3 ==
    /\ pc = "stage3"
    /\ representatives' =
          [c \in 1..Len(merged_groups) |-> ClusterOf(articles, merged_groups[c])]
    /\ pc' = "done"
    /\ UNCHANGED <<articles, threshold, stage1_groups, gi, buckets, merged_groups>>
    /\ UNCHANGED <<crossVars, titleVars, urlVars, dateVars, tierVars, summaryVars, excludeVars, bestDateVars, similarVars, dedupVars, briefVars, fetchVars>>

Next == Stage1 \/ Stage2Merge \/ Stage2Found \/ Stage3

Spec == Init /\ [][Next]_vars

-----------------------------------------------------------------------------
(* newsletter.py (D): remove_cross_category_duplicates *)

\* the inner loop over one list: (new_lst, seen) after the records from position
\* i on, a record being dropped when its key is in seen
RECURSIVE KeepUnseen(_, _, _, _)
KeepUnseen(lst, i, acc, sn) ==
    IF i > Len(lst) THEN [new_lst |-> acc, seen |-> sn]
    ELSE IF NormalizedKey(lst[i]) \in sn THEN KeepUnseen(lst, i + 1, acc, sn)
    ELSE KeepUnseen(lst, i + 1, Append(acc, lst[i]), sn \cup {NormalizedKey(lst[i])})

\* the inner loop with seen forgotten between two lists
KeepUnseenPerList(lst, sn) == KeepUnseen(lst, 1, <<>>, {})

\* the inner loop with a later occurrence of a key kept beside the first
KeepAll(lst, sn) ==
    [new_lst |-> lst, seen |-> sn \cup {NormalizedKey(lst[i]) : i \in 1..Len(lst)}]

\* the inner loop over the list lst, entered with seen = sn
SuppressList(lst, sn) == KeepUnseen(lst, 1, <<>>, sn)

\* the records of the listing es that went to category list p, in order
RECURSIVE ListOf(_, _)
ListOf(es, p) ==
    IF es = <<>> THEN <<>>
    ELSE IF Head(es)[1] = p THEN <<Head(es)[2]>> \o ListOf(Tail(es), p)
    ELSE ListOf(Tail(es), p)

InitCross ==
    /\ pc = "cross"
    /\ \E es \in SeqsUpTo((1..NumCategoryLists) \X ListedArticles, MaxListed) :
          category_lists = [p \in 1..NumCategoryLists |-> ListOf(es, p)]
    /\ ci = 1 /\ seen = {} /\ out = <<>>
    /\ IdleCluster /\ IdleTitle /\ IdleUrl /\ IdleDate /\ IdleTier /\ IdleSummary /\ IdleExclude /\ IdleBestDate /\ IdleSimilar /\ IdleDedup /\ IdleBrief /\ IdleFetch

\* one iteration of the loop over category_lists
CrossList ==
    /\ pc = "cross"
    /\ LET r == SuppressList(category_lists[ci], seen)
       IN /\ out' = Append(out, r.new_lst)
          /\ seen' = r.seen
    /\ ci' = ci + 1
    /\ pc' = IF ci = Len(category_lists) THEN "cross_done" ELSE "cross"
    /\ UNCHANGED <<category_lists, clusterVars, titleVars, urlVars, dateVars, tierVars, summaryVars, excludeVars, bestDateVars, similarVars, dedupVars, briefVars, fetchVars>>

NextCross == CrossList

SpecCross == InitCross /\ [][NextCross]_vars

-----------------------------------------------------------------------------
(* SpecTitle: _normalize_title applied to a title, then to its own result *)

TitleChars == {"a", "A", "[", "]", "(", ")", " ", "-"}

InitTitle ==
    /\ pc = "title"
    /\ title \in SeqsUpTo(TitleChars, MaxTitleLen)
    /\ nt1 = <<>> /\ nt2 = <<>>
    /\ IdleCluster /\ IdleCross /\ IdleUrl /\ IdleDate /\ IdleTier /\ IdleSummary /\ IdleExclude /\ IdleBestDate /\ IdleSimilar /\ IdleDedup /\ IdleBrief /\ IdleFetch

NormalizeTitle ==
    /\ pc = "title"
    /\ nt1' = _normalize_title(title)
    /\ pc' = "title_once"
    /\ UNCHANGED <<title, nt2, clusterVars, crossVars, urlVars, dateVars, tierVars, summaryVars, excludeVars, bestDateVars, similarVars, dedupVars, briefVars, fetchVars>>

RenormalizeTitle ==
    /\ pc = "title_once"
    /\ nt2' = _normalize_title(nt1)
    /\ pc' = "title_twice"
    /\ UNCHANGED <<title, nt1, clusterVars, crossVars, urlVars, dateVars, tierVars, summaryVars, excludeVars, bestDateVars, similarVars, dedupVars, briefVars, fetchVars>>

NextTitle == NormalizeTitle \/ RenormalizeTitle

SpecTitle == InitTitle /\ [][NextTitle]_vars

-----------------------------------------------------------------------------
(* SpecUrl: _normalize_url applied to two URLs made from one host and path *)

Hosts == {<<"n", ".", "a">>, <<"w", ".", "n", ".", "a">>}

\* the paths of up to n segments "/p"
RECURSIVE PathsUpTo(_)
PathsUpTo(n) ==
    IF n = 0 THEN {<<>>}
    ELSE PathsUpTo(n - 1) \cup {p \o <<"/", "p">> : p \in PathsUpTo(n - 1)}

UpperOf == [c \in LowerLetters |-> CHOOSE u \in UpperLetters : LowerOf[u] = c]

\* str.upper()
Upper(s) == [i \in 1..Len(s) |-> IF s[i] \in LowerLetters THEN UpperOf[s[i]] ELSE s[i]]

\* what a URL adds to its host and path: a scheme or none, the letter case of
\* the host, a trailing slash, a query string, a fragment
Decorations ==
    [scheme : {<<>>, Https}, upper : BOOLEAN, slash : BOOLEAN,
     query : {<<>>, <<"?", "q">>, <<"?", "r">>}, fragment : {<<>>, <<"#", "f">>}]

BuildUrl(base, d) ==
    (IF d.scheme = <<>> THEN <<>> ELSE d.scheme \o <<":", "/", "/">>)
    \o (IF d.upper THEN Upper(base.host) ELSE base.host)
    \o base.path
    \o (IF d.slash THEN <<"/">> ELSE <<>>)
    \o d.query \o d.fragment

InitUrl ==
    /\ pc = "url"
    /\ url_base \in [host : Hosts, path : PathsUpTo(MaxPathSegs)]
    /\ deco1 \in Decorations
    /\ deco2 \in Decorations
    /\ url1 = BuildUrl(url_base, deco1)
    /\ url2 = BuildUrl(url_base, deco2)
    /\ nurl1 = <<>> /\ nurl2 = <<>>
    /\ IdleCluster /\ IdleCross /\ IdleTitle /\ IdleDate /\ IdleTier /\ IdleSummary /\ IdleExclude /\ IdleBestDate /\ IdleSimilar /\ IdleDedup /\ IdleBrief /\ IdleFetch

NormalizeUrls ==
    /\ pc = "url"
    /\ nurl1' = _normalize_url(url1)
    /\ nurl2' = _normalize_url(url2)
    /\ pc' = "url_done"
    /\ UNCHANGED <<url_base, deco1, deco2, url1, url2, clusterVars, crossVars, titleVars, dateVars, tierVars, summaryVars, excludeVars, bestDateVars, similarVars, dedupVars, briefVars, fetchVars>>

NextUrl == NormalizeUrls

SpecUrl == InitUrl /\ [][NextUrl]_vars

-----------------------------------------------------------------------------
(* Dates and instants.  An instant is [day, sec]: day is date.toordinal(),  *)
(* sec the second of the day.                                               *)

IsLeap(y) == (y % 4 = 0 /\ y % 100 # 0) \/ y % 400 = 0

DaysInMonth(y, m) ==
    IF m = 2 THEN (IF IsLeap(y) THEN 29 ELSE 28)
    ELSE IF m \in {4, 6, 9, 11} THEN 30 ELSE 31

\* whether datetime.date(y, m, d) is a date (it raises ValueError otherwise)
IsDate(y, m, d) == y \in 1..9999 /\ m \in 1..12 /\ d >= 1 /\ d <= DaysInMonth(y, m)

RECURSIVE DaysBeforeMonth(_, _)
DaysBeforeMonth(y, m) ==
    IF m = 1 THEN 0 ELSE DaysBeforeMonth(y, m - 1) + DaysInMonth(y, m - 1)

\* date(y, m, d).toordinal()
Ordinal(y, m, d) ==
    365 * (y - 1) + ((y - 1) \div 4) - ((y - 1) \div 100) + ((y - 1) \div 400)
    + DaysBeforeMonth(y, m) + d

DaySeconds == 24 * 3600

Dt(y, m, d, hh, mm, ss) == [day |-> Ordinal(y, m, d), sec |-> hh * 3600 + mm * 60 + ss]

\* dt - timedelta(seconds=n)
DtMinus(t, n) ==
    LET total == t.sec - n
    IN IF total >= 0 THEN [day |-> t.day, sec |-> total]
       ELSE [day |-> t.day - ((-total + DaySeconds - 1) \div DaySeconds),
             sec |-> (DaySeconds - ((-total) % DaySeconds)) % DaySeconds]

\* dt + timedelta(seconds=n)
DtPlus(t, n) ==
    [day |-> t.day + ((t.sec + n) \div DaySeconds), sec |-> (t.sec + n) % DaySeconds]

DtLess(a, b) == a.day < b.day \/ (a.day = b.day /\ a.sec < b.sec)

\* an Article's published: an instant, or none (no fetcher leaves it unset)
Known(t) == [known |-> TRUE, day |-> t.day, sec |-> t.sec]
NoDate   == [known |-> FALSE, day |-> 0, sec |-> 0]

-----------------------------------------------------------------------------
(* scrapers.py: the publish anchor and the time text of a Naver result.     *)
(* In a time text "c" stands for the Hangul unit second, "b" minute,        *)
(* "s","g" hour, "i" day, "k","w" month, "n" year, and "j" for "ago".       *)

\* cfg["newsletter_publish_hour"]: missing, an integer, a float, or a string
NoHour       == [kind |-> "none", h |-> 0]
BadHour      == [kind |-> "text", h |-> 0]       \* a string int() rejects
Hour(h)      == [kind |-> "int", h |-> h]
NumText(h)   == [kind |-> "numtext", h |-> h]    \* the string of the digits of h
FloatHour(t) == [kind |-> "float", h |-> t]      \* the float t / 10

\* int(h): a float is truncated towards zero, a string of digits is read
IntOf(hour) ==
    IF hour.kind = "float"
    THEN (IF hour.h >= 0 THEN hour.h \div 10 ELSE -((-hour.h) \div 10))
    ELSE hour.h

\* int(h) raises ValueError
IntRaises(hour) == hour.kind = "text"

\* _get_newsletter_anchor with the configured hour ignored: the wall clock
AnchorWallClock(hour, clock) == clock

\* _get_newsletter_anchor without the step back of one day
AnchorSameDay(hour, clock) ==
    IF hour.kind = "none" THEN clock
    ELSE IF IntRaises(hour) THEN clock
    ELSE IF IntOf(hour) < 0 \/ IntOf(hour) > 23 THEN clock
    ELSE [day |-> clock.day, sec |-> IntOf(hour) * 3600]

\* _get_newsletter_anchor
_get_newsletter_anchor(hour, clock) ==
    IF hour.kind = "none" THEN clock
    ELSE IF IntRaises(hour) THEN clock
    ELSE IF IntOf(hour) < 0 \/ IntOf(hour) > 23 THEN clock
    ELSE LET anchor == [day |-> clock.day, sec |-> IntOf(hour) * 3600]
         IN IF DtLess(clock, anchor) THEN DtMinus(anchor, DaySeconds) ELSE anchor

\* the longest prefix of digits
RECURSIVE DigitRun(_)
DigitRun(s) ==
    IF s # <<>> /\ Head(s) \in Digits THEN <<Head(s)>> \o DigitRun(Tail(s)) ELSE <<>>

DigitValue ==
    [c \in Digits |-> CASE c = "0" -> 0 [] c = "1" -> 1 [] c = "2" -> 2 [] c = "3" -> 3
                        [] c = "4" -> 4 [] c = "5" -> 5 [] c = "6" -> 6 [] c = "7" -> 7
                        [] c = "8" -> 8 [] OTHER -> 9]

\* int(digits)
RECURSIVE ToInt(_)
ToInt(ds) ==
    IF ds = <<>> THEN 0 ELSE 10 * ToInt(SubSeq(ds, 1, Len(ds) - 1)) + DigitValue[ds[Len(ds)]]

Drop(s, n) == SubSeq(s, n + 1, Len(s))

StartsWith(s, pre) == Len(s) >= Len(pre) /\ SubSeq(s, 1, Len(pre)) = pre

\* the units of _NAVER_REL_RE and their seconds
RelUnits == {<<"c">>, <<"b">>, <<"s", "g">>, <<"i">>}
UnitSeconds(u) ==
    IF u = <<"c">> THEN 1 ELSE IF u = <<"b">> THEN 60
    ELSE IF u = <<"s", "g">> THEN 3600 ELSE DaySeconds

\* _NAVER_REL_RE.match(t): digits, a unit, "ago", white space allowed between
\* them; [ok, n, unit]
MatchRel(t) ==
    LET s0   == LStrip(t)
        ds   == DigitRun(s0)
        s1   == LStrip(Drop(s0, Len(ds)))
        us   == {u \in RelUnits : StartsWith(s1, u)}
        u    == IF us = {} THEN <<>> ELSE CHOOSE x \in us : TRUE
        s2   == LStrip(Drop(s1, Len(u)))
        ok   == /\ ds # <<>> /\ us # {}
                /\ s2 # <<>> /\ Head(s2) = "j" /\ LStrip(Tail(s2)) = <<>>
    IN [ok |-> ok, n |-> ToInt(ds), unit |-> u]

\* _NAVER_ABS_RE.match(t): "YYYY. M. D" with an optional last dot; [ok, y, m, d]
MatchAbs(t) ==
    LET s0  == LStrip(t)
        ys  == DigitRun(s0)
        s1  == Drop(s0, Len(ys))
        s2  == IF s1 # <<>> /\ Head(s1) = "." THEN LStrip(Tail(s1)) ELSE <<>>
        ms  == DigitRun(s2)
        s3  == Drop(s2, Len(ms))
        s4  == IF s3 # <<>> /\ Head(s3) = "." THEN LStrip(Tail(s3)) ELSE <<>>
        dds == DigitRun(s4)
        s5  == Drop(s4, Len(dds))
        s6  == IF s5 # <<>> /\ Head(s5) = "." THEN Tail(s5) ELSE s5
        ok  == /\ Len(ys) = 4 /\ s1 # <<>> /\ Head(s1) = "."
               /\ Len(ms) \in {1, 2} /\ s3 # <<>> /\ Head(s3) = "."
               /\ Len(dds) \in {1, 2} /\ LStrip(s6) = <<>>
    IN [ok |-> ok, y |-> ToInt(ys), m |-> ToInt(ms), d |-> ToInt(dds)]

\* _parse_naver_time_text_to_published: an instant, or NoDate for None
_parse_naver_time_text_to_published(tt, anchor) ==
    IF tt = <<>> THEN NoDate
    ELSE LET t   == Strip(tt)
             rel == MatchRel(t)
             abs == MatchAbs(t)
         IN IF rel.ok THEN Known(DtMinus(anchor, rel.n * UnitSeconds(rel.unit)))
            ELSE IF abs.ok
            THEN (IF IsDate(abs.y, abs.m, abs.d)
                  THEN Known([day |-> Ordinal(abs.y, abs.m, abs.d), sec |-> 12 * 3600])
                  ELSE NoDate)
            ELSE NoDate

-----------------------------------------------------------------------------
(* SpecDate: one search result or feed entry through its fetcher and the     *)
(* day filter of main                                                        *)

Clocks == {Dt(2026, 1, 12, 6, 0, 0), Dt(2026, 1, 12, 9, 0, 0), Dt(2026, 1, 12, 23, 30, 0)}

\* seconds the clock may advance in one step
ClockSteps == {60, 3600}

PublishHours ==
    {NoHour, BadHour, Hour(9), Hour(24), NumText(9), FloatHour(95), FloatHour(-5)}

NaverTimeTexts ==
    {<<>>,
     <<"3", "s", "g", " ", "j">>,                       \* 3 hours ago
     <<"3", "0", "b", " ", "j">>,                       \* 30 minutes ago
     <<"4", "5", "c", " ", "j">>,                       \* 45 seconds ago
     <<"1", "i", " ", "j">>,                            \* 1 day ago
     <<"8", "k", "w", " ", "j">>,                       \* 8 months ago
     <<"1", "n", " ", "j">>,                            \* 1 year ago
     <<"2", "0", "2", "6", ".", "0", "1", ".", "1", "1", ".">>,
     <<"2", "0", "2", "6", ".", " ", "1", ".", " ", "1", "1">>,
     <<"2", "0", "2", "6", ".", "2", ".", "3", "0", ".">>,
     <<"x">>}

\* the published / updated field of a feed entry, the pubDate of an OpenAPI
\* item: missing, not parsable by the date parser, or parsed to an instant
NoFeedDate  == [kind |-> "none", day |-> 0, sec |-> 0]
BadFeedDate == [kind |-> "bad", day |-> 0, sec |-> 0]
FeedDate(t) == [kind |-> "ok", day |-> t.day, sec |-> t.sec]
FeedDates ==
    {NoFeedDate, BadFeedDate, FeedDate(Dt(2026, 1, 11, 15, 0, 0)),
     FeedDate(Dt(2026, 1, 12, 8, 0, 0))}

InitDate ==
    /\ pc = "item"
    /\ now \in Clocks
    /\ \/ /\ origin = "naver_html"
          /\ cfg_hour \in PublishHours
          /\ time_text \in NaverTimeTexts
          /\ feed_date = NoFeedDate
       \/ /\ origin \in {"google_rss", "naver_openapi"}
          /\ cfg_hour = NoHour
          /\ time_text = <<>>
          /\ feed_date \in FeedDates
    /\ fetched = FALSE /\ elapsed = 0 /\ published = NoDate /\ kept = FALSE
    /\ IdleCluster /\ IdleCross /\ IdleTitle /\ IdleUrl /\ IdleTier /\ IdleSummary /\ IdleExclude /\ IdleBestDate /\ IdleSimilar /\ IdleDedup /\ IdleBrief /\ IdleFetch

\* the published of fetch_from_naver_news with None left as it is
NaverPublishedOrNone(tt, hour, clock) ==
    _parse_naver_time_text_to_published(tt, _get_newsletter_anchor(hour, clock))

\* fetch_from_naver_news: published of one result
NaverPublished(tt, hour, clock) ==
    LET p == _parse_naver_time_text_to_published(tt, _get_newsletter_anchor(hour, clock))
    IN IF p.known THEN p ELSE Known(clock)

\* fetch_from_naver_news: one search result
FetchNaverHtml ==
    /\ pc = "item" /\ origin = "naver_html"
    /\ published' = NaverPublished(time_text, cfg_hour, now)
    /\ fetched' = TRUE
    /\ pc' = "fetched"
    /\ UNCHANGED <<now, cfg_hour, origin, time_text, feed_date, elapsed, kept>>
    /\ UNCHANGED <<clusterVars, crossVars, titleVars, urlVars, tierVars, summaryVars, excludeVars, bestDateVars, similarVars, dedupVars, briefVars, fetchVars>>

\* fetch_from_google_news: published of one entry whose date field is missing or
\* parsed
GooglePublished(fd, clock) ==
    IF fd.kind = "ok" THEN Known([day |-> fd.day, sec |-> fd.sec]) ELSE Known(clock)

\* fetch_from_google_news: one entry; a date the parser rejects raises, and the
\* except clause skips the entry
FetchGoogleRss ==
    /\ pc = "item" /\ origin = "google_rss"
    /\ IF feed_date.kind = "bad"
       THEN /\ pc' = "skipped"
            /\ UNCHANGED <<fetched, published>>
       ELSE /\ published' = GooglePublished(feed_date, now)
            /\ fetched' = TRUE
            /\ pc' = "fetched"
    /\ UNCHANGED <<now, cfg_hour, origin, time_text, feed_date, elapsed, kept>>
    /\ UNCHANGED <<clusterVars, crossVars, titleVars, urlVars, tierVars, summaryVars, excludeVars, bestDateVars, similarVars, dedupVars, briefVars, fetchVars>>

\* fetch_from_naver_openapi: one item; without a parsed pubDate it is skipped
FetchNaverOpenApi ==
    /\ pc = "item" /\ origin = "naver_openapi"
    /\ IF feed_date.kind # "ok"
       THEN /\ pc' = "skipped"
            /\ UNCHANGED <<fetched, published>>
       ELSE /\ published' = Known([day |-> feed_date.day, sec |-> feed_date.sec])
            /\ fetched' = TRUE
            /\ pc' = "fetched"
    /\ UNCHANGED <<now, cfg_hour, origin, time_text, feed_date, elapsed, kept>>
    /\ UNCHANGED <<clusterVars, crossVars, titleVars, urlVars, tierVars, summaryVars, excludeVars, bestDateVars, similarVars, dedupVars, briefVars, fetchVars>>

\* the clock advances while main fetches the other sources and filters
Tick ==
    /\ pc = "fetched" /\ elapsed < MaxElapsed
    /\ \E d \in ClockSteps : now' = DtPlus(now, d)
    /\ elapsed' = elapsed + 1
    /\ UNCHANGED <<pc, cfg_hour, origin, time_text, feed_date, fetched, published, kept>>
    /\ UNCHANGED <<clusterVars, crossVars, titleVars, urlVars, tierVars, summaryVars, excludeVars, bestDateVars, similarVars, dedupVars, briefVars, fetchVars>>

\* filter_yesterday_articles: a.published.date() == now.date() - 1 day
IsYesterday(p, clock) == p.day = clock.day - 1

FilterYesterday ==
    /\ pc = "fetched"
    /\ kept' = IsYesterday(published, now)
    /\ pc' = "filtered"
    /\ UNCHANGED <<now, cfg_hour, origin, time_text, feed_date, fetched, elapsed, published>>
    /\ UNCHANGED <<clusterVars, crossVars, titleVars, urlVars, tierVars, summaryVars, excludeVars, bestDateVars, similarVars, dedupVars, briefVars, fetchVars>>

NextDate == FetchNaverHtml \/ FetchGoogleRss \/ FetchNaverOpenApi \/ Tick \/ FilterYesterday

SpecDate == InitDate /\ [][NextDate]_vars

-----------------------------------------------------------------------------
(* Claims *)

Members(g) == {g[k] : k \in 1..Len(g)}

RECURSIVE SumSizes(_)
SumSizes(reps) ==
    IF reps = <<>> THEN 0 ELSE Len(Head(reps).duplicates) + 1 + SumSizes(Tail(reps))

EmptyKey == <<<<>>, <<>>>>

Stage1Done == pc \in {"stage2", "stage3", "done"}

\* C1: every input record is in exactly one output cluster, and the sum over the
\* returned representatives of len(duplicates) + 1 is the number of input records
C1_ClusterPartition ==
    pc = "done" =>
        /\ SumSizes(representatives) = Len(articles)
        /\ Len(representatives) = Len(merged_groups)
        /\ \A i \in 1..Len(articles) :
              Cardinality({ck \in (1..Len(merged_groups)) \X (1..Len(articles)) :
                              /\ ck[2] <= Len(merged_groups[ck[1]])
                              /\ merged_groups[ck[1]][ck[2]] = i}) = 1
        /\ \A c \in 1..Len(representatives) :
              /\ representatives[c].rep \in Members(merged_groups[c])
              /\ Len(representatives[c].duplicates) + 1 = Len(merged_groups[c])

C1_Witness ==
    /\ pc = "done"
    /\ Len(representatives) >= 2
    /\ \E c \in 1..Len(representatives) : Len(representatives[c].duplicates) >= 1

\* C2, as claimed: in every returned cluster no entry of the duplicates list has
\* the NormalizedKey of the representative
C2_Original ==
    pc = "done" =>
        \A c \in 1..Len(representatives) :
            \A k \in 1..Len(representatives[c].duplicates) :
                NormalizedKey(representatives[c].duplicates[k])
                    # NormalizedKey(articles[representatives[c].rep])

\* C2, amended: the representative record itself is not among its duplicates;
\* the list has one entry for each other member of the cluster, in cluster
\* order, so an entry has the NormalizedKey of the representative only when
\* another input record of the cluster has that key
C2_RepNotOwnDuplicate ==
    pc = "done" =>
        \A c \in 1..Len(representatives) :
            LET g    == merged_groups[c]
                r    == representatives[c].rep
                dups == representatives[c].duplicates
                at   == CHOOSE k \in 1..Len(g) : g[k] = r
                rest == SubSeq(g, 1, at - 1) \o SubSeq(g, at + 1, Len(g))
            IN /\ Len(dups) = Len(rest)
               /\ \A k \in 1..Len(dups) :
                     /\ dups[k].link = articles[rest[k]].link
                     /\ dups[k].title = articles[rest[k]].title
                     /\ dups[k].source = articles[rest[k]].source
               /\ \A k \in 1..Len(dups) :
                     NormalizedKey(dups[k]) = NormalizedKey(articles[r])
                        => \E i \in Members(g) \ {r} :
                              NormalizedKey(articles[i]) = NormalizedKey(articles[r])

C2_Witness ==
    /\ pc = "done"
    /\ \E c \in 1..Len(representatives) :
          \E k \in 1..Len(representatives[c].duplicates) :
              /\ NormalizedKey(representatives[c].duplicates[k])
                    = NormalizedKey(articles[representatives[c].rep])
              /\ representatives[c].duplicates[k].link
                    # articles[representatives[c].rep].link

\* C4: after remove_cross_category_duplicates no NormalizedKey occurs in two
\* output lists
C4_CrossExclusive ==
    \A i \in 1..Len(out) : \A j \in (i + 1)..Len(out) :
        {NormalizedKey(out[i][k]) : k \in 1..Len(out[i])}
            \cap {NormalizedKey(out[j][k]) : k \in 1..Len(out[j])} = {}

C4_Witness ==
    /\ pc = "cross_done"
    /\ \E i \in 1..Len(category_lists) : \E j \in (i + 1)..Len(category_lists) :
          /\ Len(out[j]) < Len(category_lists[j])
          /\ \E k \in 1..Len(category_lists[i]) : \E l \in 1..Len(category_lists[j]) :
                NormalizedKey(category_lists[i][k]) = NormalizedKey(category_lists[j][l])

KeysOf(lst) == {NormalizedKey(lst[k]) : k \in 1..Len(lst)}

\* C5: every NormalizedKey of the input lists occurs in exactly one output list,
\* once, and that list is the first input list holding it; the number and order
\* of the lists is unchanged
C5_FirstOccurrenceKept ==
    pc = "cross_done" =>
        /\ Len(out) = Len(category_lists)
        /\ \A p \in 1..Len(category_lists) :
              /\ KeysOf(out[p]) \subseteq KeysOf(category_lists[p])
              /\ \A key \in KeysOf(category_lists[p]) :
                    LET first == CHOOSE q \in 1..Len(category_lists) :
                                    /\ key \in KeysOf(category_lists[q])
                                    /\ \A q2 \in 1..(q - 1) : key \notin KeysOf(category_lists[q2])
                    IN /\ key \in KeysOf(out[first])
                       /\ \A q \in (1..Len(out)) \ {first} : key \notin KeysOf(out[q])
                       /\ Cardinality({k \in 1..Len(out[first]) :
                                          NormalizedKey(out[first][k]) = key}) = 1

\* a story in list 1 and list 3 and not in list 2
C5_Witness ==
    /\ pc = "cross_done"
    /\ \E key \in KeysOf(category_lists[1]) \cap KeysOf(category_lists[3]) :
          /\ key \notin KeysOf(category_lists[2])
          /\ key \in KeysOf(out[1])
          /\ key \notin KeysOf(out[3])

\* C6: no two returned clusters have representatives with equal NormalizedKey
C6_DistinctRepresentativeKeys ==
    pc = "done" =>
        \A c1, c2 \in 1..Len(representatives) :
            c1 # c2 => NormalizedKey(articles[representatives[c1].rep])
                          # NormalizedKey(articles[representatives[c2].rep])

C6_Witness ==
    /\ pc = "done"
    /\ Len(representatives) >= 2
    /\ \E g \in 1..Len(stage1_groups) : Len(stage1_groups[g]) >= 2

GroupOf(groups, i) == CHOOSE g \in 1..Len(groups) : i \in Members(groups[g])

\* C7: records with the same normalized (url, title) are in one stage-1 group and
\* in one final cluster; a group keeps the arrival order of its members, and the
\* groups are in the order of arrival of their first members
C7_ExactMatchComplete ==
    /\ Stage1Done =>
          /\ \A i, j \in 1..Len(articles) :
                NormalizedKey(articles[i]) = NormalizedKey(articles[j])
                    => GroupOf(stage1_groups, i) = GroupOf(stage1_groups, j)
          /\ \A g \in 1..Len(stage1_groups) :
                \A k \in 1..(Len(stage1_groups[g]) - 1) :
                    stage1_groups[g][k] < stage1_groups[g][k + 1]
          /\ \A g \in 1..(Len(stage1_groups) - 1) :
                stage1_groups[g][1] < stage1_groups[g + 1][1]
    /\ pc = "done" =>
          \A i, j \in 1..Len(articles) :
              NormalizedKey(articles[i]) = NormalizedKey(articles[j])
                  => GroupOf(merged_groups, i) = GroupOf(merged_groups, j)

\* two records with one key and different raw links, and a second group
C7_Witness ==
    /\ pc = "done"
    /\ Len(stage1_groups) >= 2
    /\ \E i, j \in 1..Len(articles) :
          /\ i < j
          /\ articles[i].link # articles[j].link
          /\ NormalizedKey(articles[i]) = NormalizedKey(articles[j])

\* C8, as claimed: a record whose normalized URL and normalized title are both
\* empty forms a stage-1 group of its own, and records with an empty normalized
\* URL are grouped by their normalized title
C8_EmptyKeySingleton ==
    Stage1Done =>
        /\ \A g \in 1..Len(stage1_groups) :
              (\E i \in Members(stage1_groups[g]) : NormalizedKey(articles[i]) = EmptyKey)
                  => Len(stage1_groups[g]) = 1
        /\ \A i, j \in 1..Len(articles) :
              (/\ _normalize_url(articles[i].link) = <<>>
               /\ _normalize_url(articles[j].link) = <<>>
               /\ _normalize_title(articles[i].title) # <<>>)
                  => ((GroupOf(stage1_groups, i) = GroupOf(stage1_groups, j))
                        <=> (_normalize_title(articles[i].title)
                                = _normalize_title(articles[j].title)))

\* C9: _normalize_title(_normalize_title(t)) = _normalize_title(t)
C9_TitleIdempotent == pc = "title_twice" => nt2 = nt1

\* a title the normalization changes, to something
C9_Witness == pc = "title_twice" /\ nt1 # title /\ nt1 # <<>> /\ Len(nt1) >= 3

\* C10, as claimed: two URLs that differ only in query string, fragment, trailing
\* slash, letter case of the host and a missing scheme against https normalize
\* to the same string
C10_SameNormalizedUrl == pc = "url_done" => nurl1 = nurl2

Absent(p) == [known |-> FALSE, day |-> 0, sec |-> 0] = p

\* no date of the item can be had: the time text of a Naver result does not
\* parse, a feed entry has no date field
NoDateSignal ==
    \/ origin = "naver_html" /\ ~NaverPublishedOrNone(time_text, cfg_hour, now).known
    \/ origin = "google_rss" /\ feed_date.kind = "none"

\* C3, as claimed: a record for which no date strategy succeeds carries no
\* publish date (it is not given the current time) and the day filter drops it
C3_DateFailClosed ==
    (fetched /\ NoDateSignal) =>
        /\ Absent(published)
        /\ pc = "filtered" => ~kept

Tier(i) == _source_priority(articles[i].source)

TitleLen(i) == Len(_normalize_title(articles[i].title))

PositionIn(g, i) == CHOOSE k \in 1..Len(g) : g[k] = i

-----------------------------------------------------------------------------
(* SpecTier: _source_priority applied to the sources of two records *)

MaxSourceLen == 3

SourceChars == {"H", "C", "Y", "T", "N", "z", " "}

OtherSources == {<<>>, <<" ">>, <<"H", "C">>, <<"Y", "T", "N">>, <<"z", "z">>}

InitTier ==
    /\ pc = "tier"
    /\ rec_source \in SeqsUpTo(SourceChars, MaxSourceLen)
    /\ other_source \in OtherSources
    /\ prio = 0 /\ other_prio = 0
    /\ IdleCluster /\ IdleCross /\ IdleTitle /\ IdleUrl /\ IdleDate /\ IdleSummary /\ IdleExclude /\ IdleBestDate /\ IdleSimilar /\ IdleDedup /\ IdleBrief /\ IdleFetch

SourcePriority ==
    /\ pc = "tier"
    /\ prio' = _source_priority(rec_source)
    /\ other_prio' = _source_priority(other_source)
    /\ pc' = "tier_done"
    /\ UNCHANGED <<rec_source, other_source, clusterVars, crossVars, titleVars, urlVars, dateVars, summaryVars, excludeVars, bestDateVars, similarVars, dedupVars, briefVars, fetchVars>>

NextTier == SourcePriority

SpecTier == InitTier /\ [][NextTier]_vars

Listed(s) == Strip(s) \in INDUSTRY_SOURCES \cup TIER2_SOURCES

\* C12, as claimed: a record whose source is in neither tier list is in the
\* lowest tier, no other record is ranked in a strictly lower tier
C12_Original ==
    (pc = "tier_done" /\ ~Listed(rec_source)) => other_prio <= prio

\* C12, amended: a source in neither list is ranked below every listed source;
\* when it is not empty its tier is 3, and only a record with an empty source
\* is ranked lower; an empty source has tier 99, the lowest of all
C12_UnlistedTier ==
    pc = "tier_done" =>
        /\ Listed(rec_source) => prio \in {1, 2}
        /\ (~Listed(rec_source) /\ Strip(rec_source) # <<>>) =>
              /\ prio = 3
              /\ other_prio > prio => Strip(other_source) = <<>>
              /\ Listed(other_source) => other_prio < prio
        /\ Strip(rec_source) = <<>> => (prio = 99 /\ other_prio <= prio)

\* an unlisted source against an empty one
C12_Witness ==
    /\ pc = "tier_done"
    /\ ~Listed(rec_source) /\ Strip(rec_source) # <<>>
    /\ other_source = <<>>
    /\ prio = 3 /\ other_prio = 99

-----------------------------------------------------------------------------
(* Claims on the time text of a Naver result *)

\* relative phrases "<N><unit> ago" and what they subtract, in seconds
RelativePhrases ==
    {[text |-> <<"3", "s", "g", " ", "j">>, secs |-> 3 * 3600],
     [text |-> <<"3", "0", "b", " ", "j">>, secs |-> 30 * 60],
     [text |-> <<"4", "5", "c", " ", "j">>, secs |-> 45],
     [text |-> <<"1", "i", " ", "j">>,      secs |-> 24 * 3600]}

\* the latest instant at or before clock at which it is h o'clock
PublicationAnchor(h, clock) ==
    IF clock.sec >= h * 3600 THEN [day |-> clock.day, sec |-> h * 3600]
    ELSE [day |-> clock.day - 1, sec |-> h * 3600]

\* int() reads newsletter_publish_hour as one of 0..23
HourConfigured ==
    cfg_hour.kind # "none" /\ ~IntRaises(cfg_hour) /\ IntOf(cfg_hour) \in 0..23

JustFetchedNaver == pc = "fetched" /\ elapsed = 0 /\ origin = "naver_html"

\* C13, as claimed: a relative phrase is resolved to anchor - N * unit, and the
\* anchor is the configured publication anchor, not the wall clock
C13_Original ==
    \A ph \in RelativePhrases :
        (JustFetchedNaver /\ time_text = ph.text) =>
            /\ HourConfigured
            /\ published = Known(DtMinus(PublicationAnchor(IntOf(cfg_hour), now), ph.secs))

\* C13, amended: a phrase of seconds, minutes, hours or days is resolved to
\* anchor - N * unit; the anchor is the latest occurrence of the configured
\* publish hour when int() reads newsletter_publish_hour as one of 0..23, and
\* the wall clock of the fetch otherwise
C13_AnchoredRelativeTime ==
    \A ph \in RelativePhrases :
        (JustFetchedNaver /\ time_text = ph.text) =>
            IF HourConfigured
            THEN published = Known(DtMinus(PublicationAnchor(IntOf(cfg_hour), now), ph.secs))
            ELSE published = Known(DtMinus(now, ph.secs))

\* "3 hours ago" fetched at 23:30 with the publish hour 9: 2026-01-12 06:00
C13_Witness ==
    /\ JustFetchedNaver
    /\ time_text = <<"3", "s", "g", " ", "j">>
    /\ cfg_hour = Hour(9)
    /\ now = Dt(2026, 1, 12, 23, 30, 0)
    /\ published = Known(Dt(2026, 1, 12, 6, 0, 0))

\* month- and year-scale relative phrases: "8 months ago", "1 year ago"
CoarsePhrases == {<<"8", "k", "w", " ", "j">>, <<"1", "n", " ", "j">>}

\* C14, as claimed: a record whose only date signal is a month- or year-scale
\* relative phrase gets no publish date, not a computed or guessed instant
C14_CoarsePhraseUnknown ==
    (fetched /\ origin = "naver_html" /\ time_text \in CoarsePhrases)
        => ~published.known

-----------------------------------------------------------------------------
(* SpecRecords: a run of dedupe_and_group_articles or a run of              *)
(* remove_cross_category_duplicates, for what the two do to the records     *)

InitRecords == Init \/ InitCross

NextRecords == Next \/ NextCross

SpecRecords == InitRecords /\ [][NextRecords]_vars

\* s is t with some elements left out
RECURSIVE IsSubSeq(_, _)
IsSubSeq(s, t) ==
    IF s = <<>> THEN TRUE
    ELSE IF t = <<>> THEN FALSE
    ELSE IF Head(s) = Head(t) THEN IsSubSeq(Tail(s), Tail(t))
    ELSE IsSubSeq(s, Tail(t))

\* C15: dedupe_and_group_articles and remove_cross_category_duplicates never
\* alter the title, link, source or summary of a record: no step changes the
\* input records, the records of an output list are records of its input list,
\* and the only thing a run adds is the duplicates list of each representative
C15_ContentUnaltered ==
    /\ [][/\ articles' = articles
          /\ category_lists' = category_lists
          /\ \A p \in 1..Len(out') : IsSubSeq(out'[p], category_lists[p])]_vars
    /\ [](pc = "done" =>
            \A c \in 1..Len(representatives) :
                /\ representatives[c].rep \in 1..Len(articles)
                /\ DOMAIN representatives[c] = {"rep", "duplicates"})

\* a representative whose title normalization would change, with a duplicate
C15_Witness ==
    /\ pc = "done"
    /\ \E c \in 1..Len(representatives) :
          /\ representatives[c].duplicates # <<>>
          /\ _normalize_title(articles[representatives[c].rep].title)
                # articles[representatives[c].rep].title

-----------------------------------------------------------------------------
(* SpecUrlAny: _normalize_url applied to an arbitrary string *)

MaxUrlLen == 6

UrlChars == {"h", ":", "/", "[", "]", "1"}

InitUrlAny ==
    /\ pc = "any_url"
    /\ url1 \in SeqsUpTo(UrlChars, MaxUrlLen)
    /\ nurl1 = <<>>
    /\ url_base = <<>> /\ deco1 = <<>> /\ deco2 = <<>> /\ url2 = <<>> /\ nurl2 = <<>>
    /\ IdleCluster /\ IdleCross /\ IdleTitle /\ IdleDate /\ IdleTier /\ IdleSummary /\ IdleExclude /\ IdleBestDate /\ IdleSimilar /\ IdleDedup /\ IdleBrief /\ IdleFetch

\* _normalize_url(url1): the ValueError of urlparse is not caught
NormalizeAnyUrl ==
    /\ pc = "any_url"
    /\ IF url1 # <<>> /\ UrlparseRaises(url1)
       THEN pc' = "any_url_raised" /\ nurl1' = nurl1
       ELSE pc' = "any_url_done" /\ nurl1' = _normalize_url(url1)
    /\ UNCHANGED <<url_base, deco1, deco2, url1, url2, nurl2, clusterVars, crossVars, titleVars, dateVars, tierVars, summaryVars, excludeVars, bestDateVars, similarVars, dedupVars, briefVars, fetchVars>>

NextUrlAny == NormalizeAnyUrl

SpecUrlAny == InitUrlAny /\ [][NextUrlAny]_vars

\* C16, as claimed: _normalize_url returns for every string, it never raises
C16_UrlTotal == pc # "any_url_raised"

-----------------------------------------------------------------------------
(* summarizer.py: refine_article_summaries.  In a summary "~" stands for    *)
(* the ellipsis character, "'" for any of the quotes _norm_text removes,    *)
(* and the words "bg", "sj" for the phrases of meaningless_patterns.        *)

LONG_SUMMARY_THRESHOLD == 150
MAX_SUMMARY_CHARS == 105

\* n letters
Word(n) == [i \in 1..n |-> "a"]

\* a sentence of n characters: n - 1 letters and a full stop
Sentence(n) == Word(n - 1) \o <<".">>

\* k sentences of n characters each, a space between them
RECURSIVE Sentences(_, _)
Sentences(k, n) ==
    IF k = 0 THEN <<>>
    ELSE IF k = 1 THEN Sentence(n)
    ELSE Sentence(n) \o <<" ">> \o Sentences(k - 1, n)

\* n characters, every w-th of them a space
Spaced(n, w) == [i \in 1..n |-> IF i % w = 0 /\ i < n THEN " " ELSE "a"]

EndsWith(s, suf) ==
    Len(s) >= Len(suf) /\ SubSeq(s, Len(s) - Len(suf) + 1, Len(s)) = suf

\* a in b, for strings
IsSubstring(a, b) ==
    \E i \in 1..(Len(b) - Len(a) + 1) : SubSeq(b, i, i + Len(a) - 1) = a

\* re.sub(r"\s+", " ", s), for a long text: of every run of white space the
\* first character is kept
CollapseSpaces(s) ==
    LET keep == SelectSeq([i \in 1..Len(s) |-> i],
                          LAMBDA i : ~IsSpace(s[i]) \/ i = 1 \/ ~IsSpace(s[i - 1]))
    IN [k \in 1..Len(keep) |-> s[keep[k]]]

\* _norm_text: white space collapsed, the ends stripped, then quotes removed
_norm_text(s) == SelectSeq(Strip(CollapseSpaces(s)), LAMBDA c : c # "'")

\* s[:n].rstrip() + the ellipsis when s is longer than n
CutWithEllipsis(s, n) ==
    IF Len(s) > n THEN RStrip(SubSeq(s, 1, n)) \o <<"~">> ELSE s

ImageSuffixes ==
    {<<".", "j", "p", "g">>, <<".", "j", "p", "e", "g">>, <<".", "p", "n", "g">>,
     <<".", "g", "i", "f">>, <<".", "w", "e", "b", "p">>}

\* _is_image_file_url: the path of the URL, or the URL itself when urlparse
\* raises, ends in an image suffix
_is_image_file_url(url) ==
    LET path == IF url # <<>> /\ UrlparseRaises(url) THEN Lower(url)
                ELSE Lower(urlparse(url).path)
    IN \E suf \in ImageSuffixes : EndsWith(path, suf)

meaningless_patterns == {<<"b", "g">>, <<"s", "j">>}

HttpPrefixes == {<<"h","t","t","p",":","/","/">>, <<"h","t","t","p","s",":","/","/">>}

\* _is_meaningless_summary
_is_meaningless_summary(summary0) ==
    LET s == Lower(_norm_text(summary0))
    IN \/ s = <<>>
       \/ Len(s) < 12
       \/ \E p \in meaningless_patterns : IsSubstring(p, s) /\ Len(s) <= 30
       \/ \E pre \in HttpPrefixes :
             /\ StartsWith(s, pre) /\ Len(s) > Len(pre)
             /\ \A i \in 1..Len(s) : ~IsSpace(s[i])
       \/ 100 * Cardinality({i \in 1..Len(s) : s[i] \notin LowerLetters \cup Digits})
             > 65 * Len(s)

\* re.sub(r"[\[\(].*?[\]\)]", "", s): from an opening bracket to the first
\* closing bracket after it
RECURSIVE SubBracketLazy(_)
SubBracketLazy(s) ==
    LET opens == {i \in 1..Len(s) : s[i] \in {"[", "("}}
    IN IF opens = {} THEN s
       ELSE LET i      == CHOOSE x \in opens : \A y \in opens : x <= y
                closes == {j \in (i + 1)..Len(s) : s[j] \in {"]", ")"}}
            IN IF closes = {} THEN s
               ELSE LET j == CHOOSE x \in closes : \A y \in closes : x <= y
                    IN SubSeq(s, 1, i - 1) \o SubBracketLazy(SubSeq(s, j + 1, Len(s)))

\* _is_summary_same_as_title
_is_summary_same_as_title(title0, summary0) ==
    LET t  == _norm_text(title0)
        s  == _norm_text(summary0)
        d  == IF Len(t) >= Len(s) THEN Len(t) - Len(s) ELSE Len(s) - Len(t)
        t2 == Strip(SubBracketLazy(t))
        s2 == Strip(SubBracketLazy(s))
    IN IF t = <<>> \/ s = <<>> THEN FALSE
       ELSE \/ t = s
            \/ (IsSubstring(t, s) \/ IsSubstring(s, t)) /\ d <= 12
            \/ t2 # <<>> /\ s2 # <<>> /\ t2 = s2

\* _is_image_only_ad_page
_is_image_only_ad_page(text, img_count) ==
    LET t == _norm_text(text)
    IN (Len(t) < 40 /\ img_count >= 1) \/ Len(t) < 20

SentenceEnders == {".", "?", "!", "~"}

\* _SENT_SPLIT_RE.split(s) with the empty parts dropped and the others
\* stripped: s is cut at every run of white space that follows a sentence ender
RECURSIVE SentenceParts(_)
SentenceParts(s) ==
    LET cuts == {i \in 1..(Len(s) - 1) : s[i] \in SentenceEnders /\ IsSpace(s[i + 1])}
    IN IF cuts = {}
       THEN (IF Strip(s) = <<>> THEN <<>> ELSE <<Strip(s)>>)
       ELSE LET i    == CHOOSE x \in cuts : \A y \in cuts : x <= y
                part == Strip(SubSeq(s, 1, i))
            IN (IF part = <<>> THEN <<>> ELSE <<part>>)
               \o SentenceParts(LStrip(SubSeq(s, i + 1, Len(s))))

\* " ".join(parts)
RECURSIVE JoinSpace(_)
JoinSpace(parts) ==
    IF parts = <<>> THEN <<>>
    ELSE IF Len(parts) = 1 THEN parts[1]
    ELSE parts[1] \o <<" ">> \o JoinSpace(Tail(parts))

\* _enforce_2to3_sentences
_enforce_2to3_sentences(text, max_sentences, max_chars) ==
    LET s0    == Strip(CollapseSpaces(text))
        parts == SentenceParts(s0)
        s1    == IF parts = <<>> THEN s0
                 ELSE Strip(JoinSpace(SubSeq(parts, 1, Min2(Len(parts), max_sentences))))
    IN IF s0 = <<>> THEN s0 ELSE CutWithEllipsis(s1, max_chars)

\* _call_openai_2to3_sentences, for the content the model replies with
_call_openai_2to3_sentences(content, max_chars) ==
    CutWithEllipsis(Strip(CollapseSpaces(Strip(content))), max_chars)

-----------------------------------------------------------------------------
(* SpecSummary: refine_article_summaries at one article *)

MaxSummaryLen == 160

SummaryLens == {0, 5, 11, 12, 30, 31, 104, 105, 106, 107, 149, 150, 151, MaxSummaryLen}

Summaries ==
    {Word(n) : n \in SummaryLens}
        \cup {Spaced(n, 6) : n \in {104, 105, 106, 107, MaxSummaryLen}}
        \cup {Sentences(k, 40) : k \in 1..4}
        \cup {<<"b", "g">> \o Word(20), <<"s", "j">> \o Word(40),
              HttpsPrefix \o Word(20), <<"'">> \o Word(50) \o <<" ", " ", "'">>,
              [i \in 1..40 |-> IF i % 4 = 0 THEN "a" ELSE "-"]}

\* a title of its own, the summary itself, the summary behind a bracketed tag
TitlesFor(sm) == {Word(20), sm, <<"[", "a", "]", " ">> \o sm}

Links ==
    {<<>>,
     HttpsPrefix \o <<"n", ".", "a", "/", "p">>,
     HttpsPrefix \o <<"n", ".", "a", "/", "i", ".", "P", "N", "G">>,
     <<"n", ".", "a", "/", "p">>}

\* what the chat completion answers: an exception, or the content of the reply
LlmFails == [ok |-> FALSE, content |-> <<>>]
LlmSays(t) == [ok |-> TRUE, content |-> t]
LlmReplies ==
    {LlmFails, LlmSays(<<>>), LlmSays(<<" ">> \o Sentences(2, 40) \o <<" ">>),
     LlmSays(Word(130)), LlmSays(Sentences(4, 30))}

\* what _extract_text_and_imgcount returns for the page of the link
Bodies ==
    {[text |-> Word(10), img_count |-> 0],
     [text |-> Word(30), img_count |-> 1],
     [text |-> Sentences(3, 60), img_count |-> 0],
     [text |-> Spaced(200, 7), img_count |-> 1]}

InitSummary ==
    /\ pc = "summary"
    /\ a_summary \in Summaries
    /\ a_title \in TitlesFor(a_summary)
    /\ a_link \in Links
    /\ a_is_naver \in BOOLEAN
    /\ client \in BOOLEAN
    /\ summary_out = <<>>
    /\ IdleCluster /\ IdleCross /\ IdleTitle /\ IdleUrl /\ IdleDate /\ IdleTier /\ IdleExclude /\ IdleBestDate /\ IdleSimilar /\ IdleDedup /\ IdleBrief /\ IdleFetch

SummaryFrame ==
    /\ pc' = "refined"
    /\ UNCHANGED <<a_title, a_summary, a_link, a_is_naver, client>>
    /\ UNCHANGED <<clusterVars, crossVars, titleVars, urlVars, dateVars, tierVars, excludeVars, bestDateVars, similarVars, dedupVars, briefVars, fetchVars>>

\* 3) the summary is missing or meaningless: the body of the page is looked at
NeedsBody ==
    /\ ~_is_image_file_url(Strip(a_link))
    /\ _norm_text(a_summary) = <<>> \/ _is_meaningless_summary(_norm_text(a_summary))

\* _fetch_html can return a page only for an http(s) link
Fetchable == \E pre \in HttpPrefixes : StartsWith(Strip(a_link), pre)

\* the link is an image file: the summary is emptied
RefineImageLink ==
    /\ pc = "summary"
    /\ _is_image_file_url(Strip(a_link))
    /\ summary_out' = <<>>
    /\ SummaryFrame

\* _fetch_html returns None: the summary is emptied
RefineNoHtml ==
    /\ pc = "summary"
    /\ NeedsBody
    /\ summary_out' = <<>>
    /\ SummaryFrame

\* 3-1) the page is an image-only advertisement: the summary is emptied
RefineAdPage ==
    /\ pc = "summary"
    /\ NeedsBody /\ Fetchable
    /\ \E body \in Bodies :
          /\ _is_image_only_ad_page(body.text, body.img_count)
          /\ summary_out' = <<>>
    /\ SummaryFrame

\* 3-2) the summary is made from the body, by the model or from its first
\* MAX_SUMMARY_CHARS characters
RefineFromBody ==
    /\ pc = "summary"
    /\ NeedsBody /\ Fetchable
    /\ \E body \in Bodies, reply \in LlmReplies :
          LET head == _norm_text(body.text)
              summary == IF client /\ reply.ok
                         THEN _call_openai_2to3_sentences(reply.content, MAX_SUMMARY_CHARS)
                         ELSE RStrip(SubSeq(head, 1, Min2(Len(head), MAX_SUMMARY_CHARS)))
          IN /\ ~_is_image_only_ad_page(body.text, body.img_count)
             /\ summary_out' = _enforce_2to3_sentences(summary, 3, MAX_SUMMARY_CHARS)
    /\ SummaryFrame

\* 2) the summary is the title: the model rewrites the title, or the title is
\* taken as it is
RefineTitleEqual ==
    /\ pc = "summary"
    /\ ~_is_image_file_url(Strip(a_link)) /\ ~NeedsBody
    /\ _is_summary_same_as_title(_norm_text(a_title), _norm_text(a_summary))
    /\ \E reply \in LlmReplies :
          LET summary == IF client /\ reply.ok
                         THEN _call_openai_2to3_sentences(reply.content, MAX_SUMMARY_CHARS)
                         ELSE _norm_text(a_title)
          IN summary_out' =
                _enforce_2to3_sentences(CutWithEllipsis(summary, MAX_SUMMARY_CHARS),
                                        3, MAX_SUMMARY_CHARS)
    /\ SummaryFrame

\* 1) a long summary is compressed; the summary of a Naver article is
\* compressed once more when there is a client; the final cut
RefineKept ==
    /\ pc = "summary"
    /\ ~_is_image_file_url(Strip(a_link)) /\ ~NeedsBody
    /\ ~_is_summary_same_as_title(_norm_text(a_title), _norm_text(a_summary))
    /\ \E reply \in LlmReplies, again \in LlmReplies :
          LET s0 == _norm_text(a_summary)
              s1 == IF Len(s0) >= LONG_SUMMARY_THRESHOLD
                    THEN (IF client /\ reply.ok
                          THEN _call_openai_2to3_sentences(reply.content, MAX_SUMMARY_CHARS)
                          ELSE RStrip(SubSeq(s0, 1, MAX_SUMMARY_CHARS)) \o <<"~">>)
                    ELSE s0
              s2 == IF a_is_naver /\ client /\ again.ok
                    THEN _call_openai_2to3_sentences(again.content, MAX_SUMMARY_CHARS)
                    ELSE s1
          IN summary_out' =
                _enforce_2to3_sentences(CutWithEllipsis(s2, MAX_SUMMARY_CHARS),
                                        3, MAX_SUMMARY_CHARS)
    /\ SummaryFrame

NextSummary ==
    \/ RefineImageLink \/ RefineNoHtml \/ RefineAdPage \/ RefineFromBody
    \/ RefineTitleEqual \/ RefineKept

SpecSummary == InitSummary /\ [][NextSummary]_vars

\* C17, as claimed: after refine_article_summaries the summary of an article
\* is at most 105 characters long, on every branch
C17_SummaryWithinLimit ==
    pc = "refined" => Len(summary_out) <= MAX_SUMMARY_CHARS

-----------------------------------------------------------------------------
(* should_exclude_article (scrapers.py) and the stages of main that call it.
   Of every keyword list one or two entries are kept; an entry written in
   Hangul is stood for by a short string of Latin letters. *)

FASHION_HINTS == {<<"f", "s">>}
FINANCE_KEYWORDS == {<<"i", "p", "o">>, <<"i", "r">>}
PRESBYOPIA == <<"n", "y">>
FACE_AGING_HINTS == {<<"p", "b">>}
DAVICHI_SINGER_NAMES == {<<"k", "m", "k">>}
DAVICHI_NAMES == {<<"d", "v", "c">>, <<"d", "a", "v", "i", "c", "h", "i">>}
DAVICHI_SINGER_HINTS == {<<"o", "s", "t">>}
ENTERTAINMENT_HINTS == {<<"y", "y">>}
PERSONNEL_HINTS == {<<"c", "e", "o">>}
volunteer_HINTS == {<<"b", "s">>}
AD_SNIPPET_HINTS == {<<"c", "g">>}
ETC_HINTS == {<<"i", "n", "v", "e", "s", "t", "i", "n", "g">>,
              <<"C", "E", "S", " ", "2", "0", "2", "6">>}
INDUSTRY_WHITELIST == {<<"a", "c", "u", "v", "u", "e">>,
                       <<"c", "o", "n", "t", "a", "c", "t", " ", "l", "e", "n", "s">>}

\* the shortest summary the card rule lets through
MinSummaryChars == 40

\* _normalize: white space collapsed, the ends stripped, lower case
_normalize(text) == Lower(Strip(CollapseSpaces(text)))

AnyIn(hints, text) == \E h \in hints : IsSubstring(h, text)

_has_industry_whitelist(full_norm) == AnyIn(INDUSTRY_WHITELIST, full_norm)

\* the return statement of should_exclude_article that is taken, "none" for
\* the final return False
ExcludeRule(title0, summary0, is_naver) ==
    LET full == _normalize(title0 \o <<" ">> \o summary0)
    IN IF AnyIn(FASHION_HINTS, full) THEN "fashion"
       ELSE IF AnyIn(FINANCE_KEYWORDS, full) THEN "finance"
       ELSE IF IsSubstring(PRESBYOPIA, full) /\ AnyIn(FACE_AGING_HINTS, full)
            THEN "face_aging"
       ELSE IF AnyIn(DAVICHI_SINGER_NAMES, full) THEN "singer_name"
       ELSE IF /\ AnyIn(DAVICHI_NAMES, full)
               /\ AnyIn(DAVICHI_SINGER_HINTS, full)
               /\ ~_has_industry_whitelist(full)
            THEN "singer"
       ELSE IF AnyIn(ENTERTAINMENT_HINTS, full) THEN "entertainment"
       ELSE IF AnyIn(PERSONNEL_HINTS, full) /\ ~_has_industry_whitelist(full)
            THEN "personnel"
       ELSE IF AnyIn(ETC_HINTS, summary0) THEN "etc"
       ELSE IF summary0 # <<>> /\ AnyIn(AD_SNIPPET_HINTS, summary0) THEN "ad_snippet"
       ELSE IF AnyIn(volunteer_HINTS, full) /\ ~_has_industry_whitelist(full)
            THEN "volunteer"
       ELSE IF /\ ~is_naver
               /\ summary0 # <<>>
               /\ Len(summary0) < MinSummaryChars
               /\ ~_has_industry_whitelist(full)
            THEN "short_summary"
       ELSE "none"

should_exclude_article(title0, summary0, is_naver) ==
    ExcludeRule(title0, summary0, is_naver) # "none"

-----------------------------------------------------------------------------
(* SpecExclude: one article on its way through main, from the fetcher that
   builds it to the final safety filter.  The stages between that only drop
   whole records (filter_out_yakup_articles, filter_yesterday_articles,
   deduplicate_articles) are left out. *)

Acuvue == <<"a", "c", "u", "v", "u", "e">>

ExcludeWords ==
    {<<"f", "s">>, <<"I", "P", "O">>, <<"n", "y", " ", "p", "b">>, <<"k", "m", "k">>,
     <<"d", "v", "c", " ", "o", "s", "t">>, <<"y", "y">>, <<"C", "E", "O">>,
     <<"b", "s">>, <<"c", "g">>, <<"i", "n", "v", "e", "s", "t", "i", "n", "g">>}

\* a plain title, a title with a word of a keyword list, and the same titles
\* with a whitelisted brand in front
ExcludeTitles ==
    LET plain == {Word(20)} \cup {Word(5) \o <<" ">> \o w : w \in ExcludeWords}
    IN plain \cup {Acuvue \o <<" ", " ">> \o t : t \in plain}

ExcludeSummaries ==
    {<<>>, Word(30), Word(39), Word(40), Word(120), Word(MaxSummaryLen),
     Acuvue \o <<" ">> \o Word(20),
     <<"c", "g", " ">> \o Word(50),
     <<"i", "n", "v", "e", "s", "t", "i", "n", "g", " ">> \o Word(50),
     <<"b", "g">> \o Word(20)}

InitExclude ==
    /\ pc = "fetching"
    /\ a_title \in ExcludeTitles
    /\ a_summary \in ExcludeSummaries
    /\ a_link \in Links
    /\ a_is_naver = FALSE
    /\ client \in BOOLEAN
    /\ summary_out = <<>>
    /\ rule = "none"
    /\ IdleCluster /\ IdleCross /\ IdleTitle /\ IdleUrl /\ IdleDate /\ IdleTier /\ IdleBestDate /\ IdleSimilar /\ IdleDedup /\ IdleBrief /\ IdleFetch

ExcludeFrame ==
    /\ UNCHANGED <<a_title, a_summary, a_link, client>>
    /\ UNCHANGED <<clusterVars, crossVars, titleVars, urlVars, dateVars, tierVars, bestDateVars, similarVars, dedupVars, briefVars, fetchVars>>

\* fetch_from_google_news: the rules are asked with is_naver=False and the
\* Article is built with the default is_naver
FetchGoogle ==
    /\ pc = "fetching"
    /\ rule' = ExcludeRule(a_title, a_summary, FALSE)
    /\ pc' = IF rule' = "none" THEN "fetched" ELSE "excluded"
    /\ a_is_naver' = FALSE
    /\ UNCHANGED summary_out
    /\ ExcludeFrame

\* fetch_from_naver_news, fetch_from_naver_openapi: the rules are asked with
\* is_naver=True and the Article is built with is_naver=True
FetchNaver ==
    /\ pc = "fetching"
    /\ rule' = ExcludeRule(a_title, a_summary, TRUE)
    /\ pc' = IF rule' = "none" THEN "fetched" ELSE "excluded"
    /\ a_is_naver' = TRUE
    /\ UNCHANGED summary_out
    /\ ExcludeFrame

\* filter_out_finance_articles: the rules are asked with the is_naver of the
\* record
FilterOutFinance ==
    /\ pc = "fetched"
    /\ rule' = ExcludeRule(a_title, a_summary, a_is_naver)
    /\ pc' = IF rule' = "none" THEN "summary" ELSE "excluded"
    /\ UNCHANGED <<a_is_naver, summary_out>>
    /\ ExcludeFrame

\* main, step 6: the rules are asked of the refined summary, and is_naver is
\* not passed
FinalSafetyFilter ==
    /\ pc = "refined"
    /\ rule' = ExcludeRule(a_title, summary_out, FALSE)
    /\ pc' = IF rule' = "none" THEN "kept" ELSE "excluded"
    /\ UNCHANGED <<a_is_naver, summary_out>>
    /\ ExcludeFrame

NextExclude ==
    \/ FetchGoogle \/ FetchNaver \/ FilterOutFinance
    \/ NextSummary
    \/ FinalSafetyFilter

SpecExclude == InitExclude /\ [][NextExclude]_vars

\* C18, as claimed: at no stage of main is an article of Naver origin
\* excluded by the rule about a summary shorter than 40 characters
C18_NoShortRuleForNaver ==
    ~(a_is_naver /\ rule = "short_summary")

\* the text should_exclude_article looks at when the fetcher asks it
FetchedFull == _normalize(a_title \o <<" ">> \o a_summary)

\* C19, as claimed: an article whose text has a fashion hint and a term of the
\* industry whitelist is not excluded for the fashion hint, while an article
\* whose text has a finance or an entertainment keyword is excluded, whitelist
\* term or not
C19_WhitelistSparesFashion ==
    pc # "fetching" =>
        /\ AnyIn(FASHION_HINTS, FetchedFull) /\ _has_industry_whitelist(FetchedFull)
              => rule # "fashion"
        /\ AnyIn(FINANCE_KEYWORDS, FetchedFull) => pc = "excluded"
        /\ AnyIn(ENTERTAINMENT_HINTS, FetchedFull) => pc = "excluded"

\* the part of C19 about finance and entertainment keywords alone
C19_FinanceEntertainmentRegardless ==
    pc # "fetching" =>
        /\ AnyIn(FINANCE_KEYWORDS, FetchedFull) => pc = "excluded"
        /\ AnyIn(ENTERTAINMENT_HINTS, FetchedFull) => pc = "excluded"

-----------------------------------------------------------------------------
(* C20: the merge rule of stage 2 *)

\* the two texts _similarity is given for a base record and the first record
\* of a candidate cluster
ComparedTexts(base, ex) ==
    IF base.summary # <<>> /\ ex.summary # <<>>
    THEN <<_normalize_text(base.summary), _normalize_text(ex.summary)>>
    ELSE <<_normalize_text(base.title), _normalize_text(ex.title)>>

MatchedChars(base, ex) == Matches(ComparedTexts(base, ex)[1], ComparedTexts(base, ex)[2])

ComparedChars(base, ex) == Len(ComparedTexts(base, ex)[1]) + Len(ComparedTexts(base, ex)[2])

\* the ratio 2 * matched / compared is at least thr / 100
ReachesThreshold(base, ex, thr) ==
    /\ ComparedTexts(base, ex)[1] # <<>> /\ ComparedTexts(base, ex)[2] # <<>>
    /\ 200 * MatchedChars(base, ex) >= thr * ComparedChars(base, ex)

\* the ratio is exactly thr / 100
AtThreshold(base, ex, thr) ==
    /\ ComparedTexts(base, ex)[1] # <<>> /\ ComparedTexts(base, ex)[2] # <<>>
    /\ 200 * MatchedChars(base, ex) = thr * ComparedChars(base, ex)

\* ex2 is strictly more similar to base than ex1 is
MoreSimilar(base, ex2, ex1) ==
    /\ ComparedTexts(base, ex1)[1] # <<>> /\ ComparedTexts(base, ex1)[2] # <<>>
    /\ ComparedTexts(base, ex2)[1] # <<>> /\ ComparedTexts(base, ex2)[2] # <<>>
    /\ MatchedChars(base, ex2) * ComparedChars(base, ex1)
          > MatchedChars(base, ex1) * ComparedChars(base, ex2)

\* C20: the group of an iteration of stage 2 is appended to the first
\* candidate cluster, in the order the candidates are scanned, whose first
\* record is at least threshold similar to the base record (equality counts),
\* and to no other cluster; when no candidate is that similar the group
\* becomes a new cluster at the end of merged_groups
C20_FirstCandidateWins ==
    [][pc = "stage2" =>
        LET grp  == stage1_groups[gi]
            base == articles[grp[1]]
        IN \E order \in Perms(_title_bucket_keys(base.title)) :
             LET uniq == UniqCands(CandGroups(buckets, order), {})
                 hits == {p \in 1..Len(uniq) :
                            ReachesThreshold(base, articles[merged_groups[uniq[p]][1]],
                                             threshold)}
             IN IF hits = {}
                THEN merged_groups' = Append(merged_groups, grp)
                ELSE LET first == CHOOSE p \in hits : \A q \in hits : p <= q
                     IN merged_groups' = [merged_groups EXCEPT ![uniq[first]] = @ \o grp]
    ]_vars

\* the group stage 2 handled last, and the clusters that were its candidates
LastGroup == stage1_groups[gi - 1]
LastBase == articles[LastGroup[1]]
CandidateClusters ==
    {c \in 1..Len(merged_groups) :
        \E k \in _title_bucket_keys(LastBase.title) :
            k \in DOMAIN buckets /\ \E p \in 1..Len(buckets[k]) : buckets[k][p] = c}

\* the last group was appended to cluster c
MergedInto(c) ==
    /\ Len(merged_groups[c]) > Len(LastGroup)
    /\ SubSeq(merged_groups[c], Len(merged_groups[c]) - Len(LastGroup) + 1,
              Len(merged_groups[c])) = LastGroup

\* witness of C20: a group has been merged into a candidate that is exactly
\* threshold similar to it, although another candidate is more similar
C20_Witness ==
    /\ pc \in {"stage2", "stage3"} /\ gi > 1
    /\ \E c, d \in CandidateClusters :
          /\ c # d
          /\ MergedInto(c)
          /\ AtThreshold(LastBase, articles[merged_groups[c][1]], threshold)
          /\ MoreSimilar(LastBase, articles[merged_groups[d][1]],
                         articles[merged_groups[c][1]])

-----------------------------------------------------------------------------
(* C21: the clusters a group of stage 2 is compared with *)

\* the first record of cluster c, the one every comparison with c looks at
FounderOf(c) == articles[merged_groups[c][1]]

SharesBucketKey(a, b) ==
    _title_bucket_keys(a.title) \cap _title_bucket_keys(b.title) # {}

\* the group stage 2 is about to handle
CurrentBase == articles[stage1_groups[gi][1]]

\* the clusters in cand_groups, for some order of the bucket keys
CurrentCandidates ==
    UNION {{CandGroups(buckets, order)[p] : p \in 1..Len(CandGroups(buckets, order))} :
              order \in Perms(_title_bucket_keys(CurrentBase.title))}

\* C21: every cluster a stage-1 group is compared with exists already, was
\* founded by a group earlier in stage1_groups, and has a bucket key in common
\* with the group
C21_ComparedWithEarlierKeyed ==
    pc = "stage2" =>
        \A c \in CurrentCandidates :
            /\ c \in 1..Len(merged_groups)
            /\ \E j \in 1..(gi - 1) : stage1_groups[j][1] = merged_groups[c][1]
            /\ SharesBucketKey(CurrentBase, FounderOf(c))

\* witness of C21: the group has a candidate, and an earlier cluster that is
\* similar enough to it is no candidate, having no bucket key in common
C21_Witness ==
    /\ pc = "stage2"
    /\ CurrentCandidates # {}
    /\ \E c \in 1..Len(merged_groups) :
          /\ c \notin CurrentCandidates
          /\ ~SharesBucketKey(CurrentBase, FounderOf(c))
          /\ ReachesThreshold(CurrentBase, FounderOf(c), threshold)

-----------------------------------------------------------------------------
(* C22: the iteration order of the set of bucket keys *)

\* the cluster the current group is merged into when the bucket keys are
\* iterated in this order, 0 when it founds a cluster
MergeTarget(order) ==
    FirstMatch(articles, merged_groups, UniqCands(CandGroups(buckets, order), {}),
               CurrentBase, threshold)

\* C22, as claimed: what stage 2 does with a group does not depend on the
\* order in which the set of its bucket keys is iterated, so that the clusters
\* are a function of the input sequence and the threshold
C22_OrderIndependent ==
    pc = "stage2" =>
        \A o1, o2 \in Perms(_title_bucket_keys(CurrentBase.title)) :
            MergeTarget(o1) = MergeTarget(o2)

-----------------------------------------------------------------------------
(* date_filter.py: extract_best_date.  In a text "i","p" stands for the     *)
(* Hangul label "input", "d","r" for "registered", "j","s" for "written",   *)
(* "g","s","i","p" for "article input" (it ends in the label "input", as    *)
(* the Hangul does), "s","j" for "modified"; "Y", "M", "D" stand for the    *)
(* Hangul year, month and day marks and ";" for the full-width colon.       *)

InputLabels == {<<"i", "p">>, <<"d", "r">>, <<"j", "s">>, <<"g", "s", "i", "p">>}
ModifyLabels == {<<"s", "j">>}
DateSeps == {".", "-", "/"}
ColonChars == {":", ";"}

\* what a date or a match is when there is none
NoMatch == [ok |-> FALSE, y |-> 0, m |-> 0, d |-> 0, end |-> 0]
YmdMatch(y, m, d, end) == [ok |-> TRUE, y |-> y, m |-> m, d |-> d, end |-> end]

HasAt(s, i, w) == i + Len(w) - 1 <= Len(s) /\ SubSeq(s, i, i + Len(w) - 1) = w

CharAt(s, i, chars) == i <= Len(s) /\ s[i] \in chars

\* the number of digits s has from position i on, counted up to five
DigitCount(s, i) ==
    Cardinality({n \in 1..5 : \A k \in 0..(n - 1) : CharAt(s, i + k, Digits)})

\* the position \s* leaves off at, from position i
SkipSpaces(s, i) ==
    CHOOSE j \in i..(Len(s) + 1) :
        /\ \A k \in i..(j - 1) : IsSpace(s[k])
        /\ j = Len(s) + 1 \/ ~IsSpace(s[j])

\* the position \s*[:;]?\s* leaves off at
SkipColon(s, i) ==
    IF CharAt(s, SkipSpaces(s, i), ColonChars)
    THEN SkipSpaces(s, SkipSpaces(s, i) + 1)
    ELSE SkipSpaces(s, i)

NumAt(s, i, n) == ToInt(SubSeq(s, i, i + n - 1))

\* (\d{1,2}) at the end of the dotted pattern: two digits when there are two
DottedDay(s, y, m, j) ==
    IF DigitCount(s, j) >= 1
    THEN YmdMatch(y, m, NumAt(s, j, Min2(2, DigitCount(s, j))),
                  j + Min2(2, DigitCount(s, j)))
    ELSE NoMatch

\* (\d{1,2})[.\-/] and the day after it
DottedMonth(s, y, j) ==
    IF DigitCount(s, j) \in {1, 2} /\ CharAt(s, j + DigitCount(s, j), DateSeps)
    THEN DottedDay(s, y, NumAt(s, j, DigitCount(s, j)), j + DigitCount(s, j) + 1)
    ELSE NoMatch

\* (\d{4})[.\-/](\d{1,2})[.\-/](\d{1,2}) matched from position i
DottedAt(s, i) ==
    IF DigitCount(s, i) >= 4 /\ CharAt(s, i + 4, DateSeps)
    THEN DottedMonth(s, NumAt(s, i, 4), i + 5)
    ELSE NoMatch

\* \d{1,2}:\d{2} matched from position p
TimeAt(s, p) ==
    /\ DigitCount(s, p) \in {1, 2}
    /\ CharAt(s, p + DigitCount(s, p), {":"})
    /\ DigitCount(s, p + DigitCount(s, p) + 1) >= 2

\* (\d{1,2})\s*\d{1,2}:\d{2}: the day takes two digits when a time of day
\* follows them, else one digit when a time of day follows that
TimedDay(s, y, m, j) ==
    IF DigitCount(s, j) >= 2 /\ TimeAt(s, SkipSpaces(s, j + 2))
    THEN YmdMatch(y, m, NumAt(s, j, 2), j + 2)
    ELSE IF DigitCount(s, j) >= 1 /\ TimeAt(s, SkipSpaces(s, j + 1))
    THEN YmdMatch(y, m, NumAt(s, j, 1), j + 1)
    ELSE NoMatch

TimedMonth(s, y, j) ==
    IF DigitCount(s, j) \in {1, 2} /\ CharAt(s, j + DigitCount(s, j), DateSeps)
    THEN TimedDay(s, y, NumAt(s, j, DigitCount(s, j)), j + DigitCount(s, j) + 1)
    ELSE NoMatch

\* the dotted pattern followed by a time of day
TimedAt(s, i) ==
    IF DigitCount(s, i) >= 4 /\ CharAt(s, i + 4, DateSeps)
    THEN TimedMonth(s, NumAt(s, i, 4), i + 5)
    ELSE NoMatch

\* (\d{1,2})\s*D
MarkedDay(s, y, m, j) ==
    IF /\ DigitCount(s, j) \in {1, 2}
       /\ CharAt(s, SkipSpaces(s, j + DigitCount(s, j)), {"D"})
    THEN YmdMatch(y, m, NumAt(s, j, DigitCount(s, j)),
                  SkipSpaces(s, j + DigitCount(s, j)) + 1)
    ELSE NoMatch

\* (\d{1,2})\s*M\s* and the day after it
MarkedMonth(s, y, j) ==
    IF /\ DigitCount(s, j) \in {1, 2}
       /\ CharAt(s, SkipSpaces(s, j + DigitCount(s, j)), {"M"})
    THEN MarkedDay(s, y, NumAt(s, j, DigitCount(s, j)),
                   SkipSpaces(s, SkipSpaces(s, j + DigitCount(s, j)) + 1))
    ELSE NoMatch

\* (\d{4})\s*Y\s*(\d{1,2})\s*M\s*(\d{1,2})\s*D matched from position i
MarkedAt(s, i) ==
    IF DigitCount(s, i) >= 4 /\ CharAt(s, SkipSpaces(s, i + 4), {"Y"})
    THEN MarkedMonth(s, NumAt(s, i, 4), SkipSpaces(s, SkipSpaces(s, i + 4) + 1))
    ELSE NoMatch

DateAt(shape, s, i) ==
    IF shape = "dotted" THEN DottedAt(s, i)
    ELSE IF shape = "timed" THEN TimedAt(s, i)
    ELSE MarkedAt(s, i)

\* PRIMARY_DATE_PATTERNS: the labels and the shape of the date of each
PRIMARY_DATE_PATTERNS ==
    <<[labels |-> InputLabels, shape |-> "dotted"],
      [labels |-> InputLabels, shape |-> "marked"],
      [labels |-> InputLabels, shape |-> "timed"],
      [labels |-> ModifyLabels, shape |-> "dotted"],
      [labels |-> ModifyLabels, shape |-> "marked"]>>

\* FALLBACK_DATE_PATTERNS
FALLBACK_DATE_PATTERNS == <<"dotted", "marked">>

\* a pattern of PRIMARY_DATE_PATTERNS matched from position i
LabelledAt(pat, s, i) ==
    IF \E w \in pat.labels : HasAt(s, i, w)
    THEN DateAt(pat.shape, s,
                SkipColon(s, i + Len(CHOOSE w \in pat.labels : HasAt(s, i, w))))
    ELSE NoMatch

\* re.search(pat, text): the match at the leftmost position that has one
SearchLabelled(pat, s) ==
    LET hits == {i \in 1..Len(s) : LabelledAt(pat, s, i).ok}
    IN IF hits = {} THEN NoMatch
       ELSE LabelledAt(pat, s, CHOOSE i \in hits : \A j \in hits : i <= j)

\* re.finditer(pat, text): the matches from left to right, each searched from
\* where the one before it ends
RECURSIVE FindAllDates(_, _, _)
FindAllDates(shape, s, from) ==
    LET hits == {i \in from..Len(s) : DateAt(shape, s, i).ok}
    IN IF hits = {} THEN <<>>
       ELSE <<DateAt(shape, s, CHOOSE i \in hits : \A j \in hits : i <= j)>>
            \o FindAllDates(shape, s,
                   DateAt(shape, s, CHOOSE i \in hits : \A j \in hits : i <= j).end)

\* the sane window without its upper end
IsValidYmdAnyFuture(y, m, d, today) ==
    y >= 2000 /\ m \in 1..12 /\ d \in 1..31 /\ IsDate(y, m, d)

\* _is_valid_ymd
_is_valid_ymd(y, m, d, today) ==
    /\ ~(y < 2000 \/ y > today.y + 1)
    /\ ~(m < 1 \/ m > 12)
    /\ ~(d < 1 \/ d > 31)
    /\ IsDate(y, m, d)

\* _score_candidate
_score_candidate(y, m, d, today) ==
    LET days  == Ordinal(today.y, today.m, today.d) - Ordinal(y, m, d)
        delta == IF days < 0 THEN -days ELSE days
    IN IF 100000 - delta > 0 THEN 100000 - delta ELSE 0

NoBestDate == [ok |-> FALSE, y |-> 0, m |-> 0, d |-> 0]
BestDate(y, m, d) == [ok |-> TRUE, y |-> y, m |-> m, d |-> d]

\* (A) the loop over PRIMARY_DATE_PATTERNS from pattern k on: the first
\* pattern whose leftmost match is a valid date returns it
RECURSIVE PrimaryDate(_, _, _)
PrimaryDate(s, today, k) ==
    IF k > Len(PRIMARY_DATE_PATTERNS) THEN NoBestDate
    ELSE IF /\ SearchLabelled(PRIMARY_DATE_PATTERNS[k], s).ok
            /\ _is_valid_ymd(SearchLabelled(PRIMARY_DATE_PATTERNS[k], s).y,
                             SearchLabelled(PRIMARY_DATE_PATTERNS[k], s).m,
                             SearchLabelled(PRIMARY_DATE_PATTERNS[k], s).d, today)
    THEN BestDate(SearchLabelled(PRIMARY_DATE_PATTERNS[k], s).y,
                  SearchLabelled(PRIMARY_DATE_PATTERNS[k], s).m,
                  SearchLabelled(PRIMARY_DATE_PATTERNS[k], s).d)
    ELSE PrimaryDate(s, today, k + 1)

\* (B) cands: the valid matches of the first fallback pattern, then those of
\* the second
FallbackCands(s, today) ==
    SelectSeq(FindAllDates(FALLBACK_DATE_PATTERNS[1], s, 1)
                  \o FindAllDates(FALLBACK_DATE_PATTERNS[2], s, 1),
              LAMBDA c : _is_valid_ymd(c.y, c.m, c.d, today))

\* max(cands, key=score): the first of the candidates with the highest score
BestOf(cands, today) ==
    LET top == CHOOSE i \in 1..Len(cands) :
                  /\ \A j \in 1..Len(cands) :
                        _score_candidate(cands[j].y, cands[j].m, cands[j].d, today)
                            <= _score_candidate(cands[i].y, cands[i].m, cands[i].d, today)
                  /\ \A j \in 1..(i - 1) :
                        _score_candidate(cands[j].y, cands[j].m, cands[j].d, today)
                            < _score_candidate(cands[i].y, cands[i].m, cands[i].d, today)
    IN BestDate(cands[top].y, cands[top].m, cands[top].d)

\* extract_best_date
extract_best_date(s, today) ==
    IF s = <<>> THEN NoBestDate
    ELSE IF PrimaryDate(s, today, 1).ok THEN PrimaryDate(s, today, 1)
    ELSE IF FallbackCands(s, today) = <<>> THEN NoBestDate
    ELSE BestOf(FallbackCands(s, today), today)

-----------------------------------------------------------------------------
(* SpecBestDate: extract_best_date at one text *)

MaxChunks == 3

DateChunks ==
    {<<"i","p"," ","2","0","2","6",".","0","1",".","0","3">>,
     <<"i","p"," ","1","9","9","9",".","0","1",".","0","1">>,
     <<"g","s","i","p",";"," ","2","0","2","6","-","1","-","4"," ","0","9",":","3","0">>,
     <<"d","r"," ","2","0","2","6","Y"," ","1","M"," ","2","D">>,
     <<"s","j"," ","2","0","2","6",".","0","1",".","0","5">>,
     <<"2","0","2","6",".","0","1",".","0","6">>,
     <<"2","0","2","7",".","1",".","1">>,
     <<"2","0","2","5","Y"," ","1","2","M"," ","3","0","D">>}

RECURSIVE JoinChunks(_)
JoinChunks(cs) ==
    IF cs = <<>> THEN <<>>
    ELSE IF Len(cs) = 1 THEN cs[1]
    ELSE cs[1] \o <<" ">> \o JoinChunks(Tail(cs))

DateTexts == {JoinChunks(cs) : cs \in SeqsUpTo(DateChunks, MaxChunks)}

Todays == {[y |-> 2026, m |-> 1, d |-> 6], [y |-> 2025, m |-> 12, d |-> 31]}

InitBestDate ==
    /\ pc = "best_date"
    /\ bd_text \in DateTexts
    /\ bd_today \in Todays
    /\ bd_result = NoBestDate
    /\ IdleCluster /\ IdleCross /\ IdleTitle /\ IdleUrl /\ IdleDate /\ IdleTier /\ IdleSimilar /\ IdleDedup /\ IdleBrief /\ IdleFetch
    /\ IdleSummary /\ IdleExclude /\ IdleSimilar /\ IdleDedup /\ IdleBrief /\ IdleFetch

ExtractBestDate ==
    /\ pc = "best_date"
    /\ bd_result' = extract_best_date(bd_text, bd_today)
    /\ pc' = "best_done"
    /\ UNCHANGED <<bd_text, bd_today>>
    /\ UNCHANGED <<clusterVars, crossVars, titleVars, urlVars, dateVars,
                   tierVars, summaryVars, excludeVars, similarVars, dedupVars,
                   briefVars, fetchVars>>

NextBestDate == ExtractBestDate

SpecBestDate == InitBestDate /\ [][NextBestDate]_vars

-----------------------------------------------------------------------------
(* C23, C24: extract_best_date *)

InSaneWindow(c, today) ==
    c.y >= 2000 /\ c.y <= today.y + 1 /\ IsDate(c.y, c.m, c.d)

\* the places of the text where a labelled date that is a valid date starts,
\* with the pattern that matches there
LabelledValid ==
    {ik \in (1..Len(bd_text)) \X (1..Len(PRIMARY_DATE_PATTERNS)) :
        /\ LabelledAt(PRIMARY_DATE_PATTERNS[ik[2]], bd_text, ik[1]).ok
        /\ InSaneWindow(LabelledAt(PRIMARY_DATE_PATTERNS[ik[2]], bd_text, ik[1]),
                        bd_today)}

EarliestLabelled ==
    CHOOSE ik \in LabelledValid :
        \A jl \in LabelledValid :
            ik[1] < jl[1] \/ (ik[1] = jl[1] /\ ik[2] <= jl[2])

SameDate(r, c) == r.ok /\ r.y = c.y /\ r.m = c.m /\ r.d = c.d

\* C23, as claimed: when the text has a labelled date that is a valid date,
\* extract_best_date returns the date of the labelled match that comes first
\* in the text
C23_EarliestLabelledWins ==
    (pc = "best_done" /\ LabelledValid # {}) =>
        SameDate(bd_result,
                 LabelledAt(PRIMARY_DATE_PATTERNS[EarliestLabelled[2]], bd_text,
                            EarliestLabelled[1]))

\* the dates the fallback scan finds that are valid dates of the sane window
WindowCands ==
    {c \in {FindAllDates("dotted", bd_text, 1)[i] :
                i \in 1..Len(FindAllDates("dotted", bd_text, 1))}
           \cup {FindAllDates("marked", bd_text, 1)[i] :
                    i \in 1..Len(FindAllDates("marked", bd_text, 1))} :
        InSaneWindow(c, bd_today)}

\* the distance in days between a date and today
DaysFromToday(c) ==
    IF Ordinal(c.y, c.m, c.d) >= Ordinal(bd_today.y, bd_today.m, bd_today.d)
    THEN Ordinal(c.y, c.m, c.d) - Ordinal(bd_today.y, bd_today.m, bd_today.d)
    ELSE Ordinal(bd_today.y, bd_today.m, bd_today.d) - Ordinal(c.y, c.m, c.d)

\* C24: when the labels give no date, extract_best_date returns nothing if the
\* scan of the whole text finds no valid date with 2000 <= year <= current
\* year + 1, and otherwise one of those dates that no other of them is closer
\* to today than; and a date it returns is never outside that window
C24_ClosestInWindow ==
    pc = "best_done" =>
        /\ bd_result.ok => InSaneWindow(bd_result, bd_today)
        /\ ~PrimaryDate(bd_text, bd_today, 1).ok =>
              IF WindowCands = {} THEN ~bd_result.ok
              ELSE /\ \E c \in WindowCands : SameDate(bd_result, c)
                   /\ \A c \in WindowCands : DaysFromToday(bd_result) <= DaysFromToday(c)

\* witness of C24: no label gives a date, the scan finds two dates of the
\* window at different distances from today and a date outside the window,
\* and a date is returned
C24_Witness ==
    /\ pc = "best_done"
    /\ ~PrimaryDate(bd_text, bd_today, 1).ok
    /\ bd_result.ok
    /\ \E c, e \in WindowCands : DaysFromToday(c) < DaysFromToday(e)
    /\ \E i \in 1..Len(bd_text) :
          DottedAt(bd_text, i).ok /\ ~InSaneWindow(DottedAt(bd_text, i), bd_today)

-----------------------------------------------------------------------------
(* SpecSimilar: one comparison of the scan of stage 2 *)

SimTitles == {<<>>, <<" ">>, <<"a", "b", " ", "c", "d">>, <<"A", "B", " ", "c", "d">>}

SimSummaries == {<<>>, <<" ">>, <<" ", " ">>, <<"a", "b", "c", "d">>, <<"a", "b">>}

SimThresholds == {1, MainThreshold, DefaultThreshold, 100}

InitSimilar ==
    /\ pc = "compare"
    /\ sim_base \in [title : SimTitles, summary : SimSummaries]
    /\ sim_ex \in [title : SimTitles, summary : SimSummaries]
    /\ sim_thr \in SimThresholds
    /\ sim_hit = FALSE
    /\ IdleCluster /\ IdleCross /\ IdleTitle /\ IdleUrl /\ IdleDate /\ IdleTier /\ IdleDedup /\ IdleBrief /\ IdleFetch
    /\ IdleSummary /\ IdleExclude /\ IdleBestDate /\ IdleDedup /\ IdleBrief /\ IdleFetch

\* the body of the loop over uniq_cands up to "if sim >= threshold"
CompareOne ==
    /\ pc = "compare"
    /\ sim_hit' = Similar(sim_base, sim_ex, sim_thr)
    /\ pc' = "compared"
    /\ UNCHANGED <<sim_base, sim_ex, sim_thr>>
    /\ UNCHANGED <<clusterVars, crossVars, titleVars, urlVars, dateVars,
                   tierVars, summaryVars, excludeVars, bestDateVars, dedupVars,
                   briefVars, fetchVars>>

NextSimilar == CompareOne

SpecSimilar == InitSimilar /\ [][NextSimilar]_vars

\* one of the two texts that are compared is empty once it is normalized
ComparedEmpty ==
    \/ ComparedTexts(sim_base, sim_ex)[1] = <<>>
    \/ ComparedTexts(sim_base, sim_ex)[2] = <<>>

\* C25: when one of the two compared texts is empty after normalization the
\* similarity is 0, below every threshold greater than 0, so that the group
\* is not merged into the candidate
C25_EmptyNeverSimilar ==
    (pc = "compared" /\ ComparedEmpty) => ~sim_hit

\* witness of C25: two records with summaries, one of white space only, have
\* been compared, and their titles are the same
C25_Witness ==
    /\ pc = "compared"
    /\ sim_base.summary = <<" ">> /\ sim_ex.summary = <<"a", "b", "c", "d">>
    /\ sim_base.title = sim_ex.title /\ sim_base.title # <<>>
    /\ ComparedEmpty
    /\ ~sim_hit

-----------------------------------------------------------------------------
(* scrapers.py: deduplication (URL + title).  _normalize_url and            *)
(* _normalize_title of scrapers.py are those of newsletter.py (A), letter   *)
(* for letter.                                                              *)

\* s.split("&")
RECURSIVE SplitAmp(_)
SplitAmp(s) ==
    IF Find(s, "&", 1) = 0 THEN <<s>>
    ELSE <<SubSeq(s, 1, Find(s, "&", 1) - 1)>>
         \o SplitAmp(SubSeq(s, Find(s, "&", 1) + 1, Len(s)))

\* the characters of the percent escapes that the links use
Unhex(a, b) ==
    IF a = "2" /\ b \in {"F", "f"} THEN "/"
    ELSE IF a = "3" /\ b \in {"A", "a"} THEN ":"
    ELSE "%"

\* s.replace("+", " ") then unquote: %2F and %3A decoded, any other "%" kept
RECURSIVE Unquote(_)
Unquote(s) ==
    IF s = <<>> THEN <<>>
    ELSE IF Head(s) = "+" THEN <<" ">> \o Unquote(Tail(s))
    ELSE IF Head(s) = "%" /\ Len(s) >= 3 /\ Unhex(s[2], s[3]) # "%"
    THEN <<Unhex(s[2], s[3])>> \o Unquote(SubSeq(s, 4, Len(s)))
    ELSE <<Head(s)>> \o Unquote(Tail(s))

UrlName == <<"u", "r", "l">>

\* parse_qs(query)["url"]: the values of the fields named url, blank values
\* and fields without "=" left out
UrlValues(pairs) ==
    SelectSeq(pairs, LAMBDA nv : /\ Find(nv, "=", 1) # 0
                                 /\ Find(nv, "=", 1) < Len(nv)
                                 /\ Unquote(SubSeq(nv, 1, Find(nv, "=", 1) - 1)) = UrlName)

ValueOf(nv) == Unquote(SubSeq(nv, Find(nv, "=", 1) + 1, Len(nv)))

resolve_final_url(link) ==
    IF UrlparseRaises(link) THEN link
    ELSE IF UrlValues(SplitAmp(SplitRest(SplitScheme(link).rest).query)) # <<>>
    THEN ValueOf(UrlValues(SplitAmp(SplitRest(SplitScheme(link).rest).query))[1])
    ELSE link

\* _normalize_url(resolve_final_url(link)) raises ValueError
LinkRaises(link) ==
    resolve_final_url(link) # <<>> /\ UrlparseRaises(resolve_final_url(link))

\* deduplicate_articles that never looks at the titles
RECURSIVE DedupByUrlOnly(_, _, _, _, _)
DedupByUrlOnly(arts, i, seen_urls, seen_titles, outp) ==
    IF i > Len(arts) THEN outp
    ELSE LET u == _normalize_url(resolve_final_url(arts[i].link))
         IN IF u # <<>> /\ u \in seen_urls
            THEN DedupByUrlOnly(arts, i + 1, seen_urls, seen_titles, outp)
            ELSE DedupByUrlOnly(arts, i + 1,
                                IF u # <<>> THEN seen_urls \cup {u} ELSE seen_urls,
                                seen_titles, Append(outp, i))

\* the loop of deduplicate_articles from record i on: outp is the positions of the records in out
RECURSIVE DedupFrom(_, _, _, _, _)
DedupFrom(arts, i, seen_urls, seen_titles, outp) ==
    IF i > Len(arts) THEN outp
    ELSE LET u == _normalize_url(resolve_final_url(arts[i].link))
             t == _normalize_title(arts[i].title)
         IN IF u # <<>> /\ u \in seen_urls
            THEN DedupFrom(arts, i + 1, seen_urls, seen_titles, outp)
            ELSE IF t # <<>> /\ t \in seen_titles
            THEN DedupFrom(arts, i + 1, seen_urls, seen_titles, outp)
            ELSE DedupFrom(arts, i + 1,
                           IF u # <<>> THEN seen_urls \cup {u} ELSE seen_urls,
                           IF t # <<>> THEN seen_titles \cup {t} ELSE seen_titles,
                           Append(outp, i))

\* SpecDedup: one call of deduplicate_articles

MaxDedup == 3     \* records in the list

DedupTitles == {<<"a", "b">>, <<"A", "B", " ", "(", "c", ")">>, <<"[", "x", "]">>}

DedupLinks ==
    {<<>>,
     <<"/", "/", "n", ".", "a", "/", "p">>,
     <<"/", "/", "N", ".", "A", "/", "p", "/">>,
     <<"/", "/", "g", ".", "c", "/", "r", "?", "u", "r", "l", "=",
       "%", "2", "F", "/", "n", ".", "a", "/", "p">>,
     <<"/", "/", "[">>}

InitDedup ==
    /\ pc = "dedup"
    /\ dd_articles \in SeqsUpTo([title : DedupTitles, link : DedupLinks], MaxDedup)
    /\ dd_links = <<>>
    /\ dd_out = <<>>
    /\ IdleCluster /\ IdleCross /\ IdleTitle /\ IdleUrl /\ IdleDate /\ IdleTier /\ IdleBrief /\ IdleFetch
    /\ IdleSummary /\ IdleExclude /\ IdleBestDate /\ IdleSimilar /\ IdleBrief /\ IdleFetch

\* deduplicate_articles(articles) returns
DeduplicateArticles ==
    /\ pc = "dedup"
    /\ \A i \in 1..Len(dd_articles) : ~LinkRaises(dd_articles[i].link)
    /\ dd_links' = [i \in 1..Len(dd_articles) |-> resolve_final_url(dd_articles[i].link)]
    /\ dd_out' = DedupFrom(dd_articles, 1, {}, {}, <<>>)
    /\ pc' = "dedup_done"
    /\ UNCHANGED dd_articles
    /\ UNCHANGED <<clusterVars, crossVars, titleVars, urlVars, dateVars,
                   tierVars, summaryVars, excludeVars, bestDateVars, similarVars,
                   briefVars, fetchVars>>

\* deduplicate_articles(articles) raises the ValueError of urlparse: the
\* links of the records before the one that raises have been resolved
DeduplicateRaises ==
    /\ pc = "dedup"
    /\ \E i \in 1..Len(dd_articles) :
          /\ LinkRaises(dd_articles[i].link)
          /\ \A k \in 1..(i - 1) : ~LinkRaises(dd_articles[k].link)
          /\ dd_links' = [k \in 1..Len(dd_articles) |->
                             IF k <= i THEN resolve_final_url(dd_articles[k].link)
                             ELSE dd_articles[k].link]
    /\ pc' = "dedup_raised"
    /\ UNCHANGED <<dd_articles, dd_out>>
    /\ UNCHANGED <<clusterVars, crossVars, titleVars, urlVars, dateVars,
                   tierVars, summaryVars, excludeVars, bestDateVars, similarVars,
                   briefVars, fetchVars>>

NextDedup == DeduplicateArticles \/ DeduplicateRaises

SpecDedup == InitDedup /\ [][NextDedup]_vars

\* normalized URL and normalized title of record i after the call
UrlOf(i) == _normalize_url(dd_links[i])

TitleOf(i) == _normalize_title(dd_articles[i].title)

Returned == {dd_out[k] : k \in 1..Len(dd_out)}

SharesUrlOrTitle(i, j) ==
    \/ UrlOf(i) # <<>> /\ UrlOf(i) = UrlOf(j)
    \/ TitleOf(i) # <<>> /\ TitleOf(i) = TitleOf(j)

\* C26: what deduplicate_articles returns is a subsequence of its input in
\* the input's order, with the first record in it; no two returned records
\* share a non-empty normalized URL or a non-empty normalized title; every
\* record left out shares one with a returned record before it
C26_DedupSubsequence ==
    pc = "dedup_done" =>
        /\ \A k \in 1..Len(dd_out) : dd_out[k] \in 1..Len(dd_articles)
        /\ \A k \in 1..(Len(dd_out) - 1) : dd_out[k] < dd_out[k + 1]
        /\ dd_articles # <<>> => (dd_out # <<>> /\ dd_out[1] = 1)
        /\ \A i, j \in Returned : i # j => ~SharesUrlOrTitle(i, j)
        /\ \A j \in (1..Len(dd_articles)) \ Returned :
              \E i \in Returned : i < j /\ SharesUrlOrTitle(i, j)

\* witness of C26: of three records the second is left out for its URL, which
\* is the link the first resolves to, and the third is returned
C26_Witness ==
    /\ pc = "dedup_done"
    /\ Len(dd_articles) = 3
    /\ dd_out = <<1, 3>>
    /\ dd_links[1] # dd_articles[1].link
    /\ UrlOf(1) = UrlOf(2) /\ UrlOf(1) # <<>>
    /\ TitleOf(1) # TitleOf(2)

-----------------------------------------------------------------------------
(* C27: groups without bucket keys *)

\* the normalized title has a token of two characters or more: two
\* characters next to each other, neither of them a space
HasLongToken(t) ==
    \E i \in 1..(Len(_normalize_title(t)) - 1) :
        _normalize_title(t)[i] # " " /\ _normalize_title(t)[i + 1] # " "

\* the stage-1 groups that stage 2 has handled
HandledGroups == IF pc = "start" THEN {} ELSE 1..(gi - 1)

\* C27: a stage-1 group whose first record has a normalized title without a
\* token of two characters or more is a cluster of its own once stage 2 has
\* handled it, and stays one: it was merged into no cluster and no later
\* group is merged into it
C27_KeylessStaysAlone ==
    \A k \in HandledGroups :
        ~HasLongToken(articles[stage1_groups[k][1]].title) =>
            \E c \in 1..Len(merged_groups) : merged_groups[c] = stage1_groups[k]

\* witness of C27: clustering is over; a group without bucket keys came after
\* a cluster whose first record is similar to its own, and before a group
\* whose first record is similar to its own, and it is a cluster of its own
C27_Witness ==
    /\ pc = "done"
    /\ \E k \in 2..(Len(stage1_groups) - 1) :
          /\ ~HasLongToken(articles[stage1_groups[k][1]].title)
          /\ ReachesThreshold(articles[stage1_groups[k][1]],
                              articles[stage1_groups[k - 1][1]], threshold)
          /\ ReachesThreshold(articles[stage1_groups[k + 1][1]],
                              articles[stage1_groups[k][1]], threshold)
          /\ \E c \in 1..Len(merged_groups) : merged_groups[c] = stage1_groups[k]

-----------------------------------------------------------------------------
(* C28: the publish anchor *)

\* the anchor of a fetch that resolved the relative phrase ph: the phrase's
\* seconds after published
AnchorUsed(ph) == DtPlus([day |-> published.day, sec |-> published.sec], ph.secs)

\* the latest instant at or before clock with hour h, minute 0, second 0
LatestAtHour(a, h, clock) ==
    /\ a.sec = h * 3600
    /\ ~DtLess(clock, a)
    /\ DtLess(clock, DtPlus(a, DaySeconds))

\* C28, as claimed: the anchor is the latest instant at or before now at the
\* configured hour when newsletter_publish_hour is an integer in 0..23, and
\* now when it is missing, not an integer, or outside 0..23
C28_Original ==
    \A ph \in RelativePhrases :
        (JustFetchedNaver /\ time_text = ph.text) =>
            IF cfg_hour.kind = "int" /\ cfg_hour.h \in 0..23
            THEN LatestAtHour(AnchorUsed(ph), cfg_hour.h, now)
            ELSE AnchorUsed(ph) = now

\* C28, amended: the anchor is the latest instant at or before now at hour
\* int(h) when int() reads newsletter_publish_hour h as one of 0..23 (an
\* integer, a float truncated towards zero, or a string of digits), and now
\* when h is missing, int() rejects it, or int(h) is outside 0..23
C28_AnchorAtConfiguredHour ==
    \A ph \in RelativePhrases :
        (JustFetchedNaver /\ time_text = ph.text) =>
            IF cfg_hour.kind # "none" /\ ~IntRaises(cfg_hour) /\ IntOf(cfg_hour) \in 0..23
            THEN LatestAtHour(AnchorUsed(ph), IntOf(cfg_hour), now)
            ELSE AnchorUsed(ph) = now

\* witness of C28: "45 seconds ago" fetched at 06:00 with the publish hour
\* 9.5: the anchor is 09:00 of the day before
C28_Witness ==
    /\ JustFetchedNaver
    /\ time_text = <<"4", "5", "c", " ", "j">>
    /\ cfg_hour = FloatHour(95)
    /\ now = Dt(2026, 1, 12, 6, 0, 0)
    /\ published = Known(Dt(2026, 1, 11, 8, 59, 15))

-----------------------------------------------------------------------------
(* newsletter.py (E), (F): the records for the briefing *)

\* re.sub(r"[^\w<Hangul> ]+", " ", s): every run of characters that are neither
\* word characters nor spaces becomes one space
RECURSIVE SubNonWordNonSpace(_)
SubNonWordNonSpace(s) ==
    IF s = <<>> THEN <<>>
    ELSE IF IsWord(Head(s)) \/ Head(s) = " " THEN <<Head(s)>> \o SubNonWordNonSpace(Tail(s))
    ELSE IF Len(s) >= 2 /\ ~IsWord(s[2]) /\ s[2] # " " THEN SubNonWordNonSpace(Tail(s))
    ELSE <<" ">> \o SubNonWordNonSpace(Tail(s))

_brief_norm(s) ==
    Strip(SubSpaces(SubNonWordNonSpace(SubParenthesized(SubBracketed(
        SubSpaces(Strip(Lower(s))))))))

\* _brief_sim(a, b) >= thr / 100
BriefSimAtLeast(a, b, thr) ==
    IF _brief_norm(a) = <<>> \/ _brief_norm(b) = <<>> THEN 0 >= thr
    ELSE 200 * Matches(_brief_norm(a), _brief_norm(b))
            >= thr * (Len(_brief_norm(a)) + Len(_brief_norm(b)))

\* key_text: the summary if it has more than white space, else the title
KeyText(a) == IF Strip(a.summary) # <<>> THEN a.summary ELSE a.title

_has_summary(a) == Len(Strip(a.summary)) > 0

\* the threshold dedupe_for_brief has by default
BriefDefaultThreshold == 70

\* the threshold select_articles_for_brief passes to dedupe_for_brief
BriefThreshold == 60

NumPools == 5

\* pools: the records with a summary of each list
Pools(lists) == [p \in 1..NumPools |-> SelectSeq(lists[p], _has_summary)]

\* 1) the round-robin loop, in the round of index idx at pool p: selected as
\* pairs <<pool, index>>
RECURSIVE RoundRobin(_, _, _, _, _, _)
RoundRobin(pools, max_items, idx, p, added_any, selected) ==
    IF p > NumPools
    THEN IF added_any /\ Len(selected) < max_items
         THEN RoundRobin(pools, max_items, idx + 1, 1, FALSE, selected)
         ELSE selected
    ELSE IF idx <= Len(pools[p]) /\ Len(selected) < max_items
    THEN RoundRobin(pools, max_items, idx, p + 1, TRUE, Append(selected, <<p, idx>>))
    ELSE RoundRobin(pools, max_items, idx, p + 1, added_any, selected)

Selected(pools, max_items) ==
    IF 0 < max_items THEN RoundRobin(pools, max_items, 1, 1, FALSE, <<>>) ELSE <<>>

\* 2) the loop over selected that drops a record whose key was seen
RECURSIVE BriefDeduped(_, _, _, _, _)
BriefDeduped(pools, selected, i, sn, deduped) ==
    IF i > Len(selected) THEN deduped
    ELSE IF NormalizedKey(pools[selected[i][1]][selected[i][2]]) \in sn
    THEN BriefDeduped(pools, selected, i + 1, sn, deduped)
    ELSE BriefDeduped(pools, selected, i + 1,
                      sn \cup {NormalizedKey(pools[selected[i][1]][selected[i][2]])},
                      Append(deduped, selected[i]))

\* dedupe_for_brief from record i on, the records given as pairs of pool and
\* index: a record similar to one of acc is dropped, and the loop ends when
\* acc has max_keep records
RECURSIVE dedupe_for_brief(_, _, _, _, _, _)
dedupe_for_brief(pools, arts, i, acc, thr, max_keep) ==
    IF i > Len(arts) THEN acc
    ELSE IF \E k \in 1..Len(acc) :
                BriefSimAtLeast(KeyText(pools[arts[i][1]][arts[i][2]]),
                                KeyText(pools[acc[k][1]][acc[k][2]]), thr)
    THEN (IF Len(acc) >= max_keep THEN acc
          ELSE dedupe_for_brief(pools, arts, i + 1, acc, thr, max_keep))
    ELSE IF Len(acc) + 1 >= max_keep THEN Append(acc, arts[i])
    ELSE dedupe_for_brief(pools, arts, i + 1, Append(acc, arts[i]), thr, max_keep)

\* deduped[:max_items], for max_items >= 0
Truncate(s, n) == SubSeq(s, 1, Min2(n, Len(s)))

select_articles_for_brief(lists, max_items) ==
    Truncate(dedupe_for_brief(Pools(lists),
                              BriefDeduped(Pools(lists), Selected(Pools(lists), max_items),
                                           1, {}, <<>>),
                              1, <<>>, BriefThreshold, max_items),
             max_items)

\* SpecBrief: one call of select_articles_for_brief

MaxBriefItems == 3     \* records in the five lists together

\* B1, B2: one link and title, summaries that differ; B3: a summary 0.6
\* similar to the one of B1; B4: a summary of white space
BriefSamples ==
    {[title |-> <<"a", "b">>, link |-> <<"/", "/", "n", ".", "a", "/", "p">>,
      summary |-> <<"a", "b", "c", "d">>],
     [title |-> <<"A", "B">>, link |-> <<"/", "/", "n", ".", "a", "/", "p", "/">>,
      summary |-> <<"p", "q">>],
     [title |-> <<"c", "d">>, link |-> <<>>,
      summary |-> <<"[", "x", "]", " ", "A", "b", "c", "x", "y", "z">>],
     [title |-> <<"e", "f">>, link |-> <<>>, summary |-> <<" ">>]}

\* the lists that hold the records of items, a sequence of pairs of a record
\* and the number of its list
ListsOf(items) ==
    [p \in 1..NumPools |->
        LET mine == SelectSeq(items, LAMBDA it : it[2] = p)
        IN [k \in 1..Len(mine) |-> mine[k][1]]]

\* main asks for ten records
MaxItemsChoices == {0, 2, 10}

InitBrief ==
    /\ pc = "brief"
    /\ br_pools \in {ListsOf(items) :
                        items \in SeqsUpTo(BriefSamples \X (1..NumPools), MaxBriefItems)}
    /\ br_max \in MaxItemsChoices
    /\ br_selected = <<>>
    /\ br_out = <<>>
    /\ IdleCluster /\ IdleCross /\ IdleTitle /\ IdleUrl /\ IdleDate /\ IdleTier /\ IdleFetch
    /\ IdleSummary /\ IdleExclude /\ IdleBestDate /\ IdleSimilar /\ IdleDedup /\ IdleFetch

SelectArticlesForBrief ==
    /\ pc = "brief"
    /\ br_selected' = Selected(Pools(br_pools), br_max)
    /\ br_out' = select_articles_for_brief(br_pools, br_max)
    /\ pc' = "brief_done"
    /\ UNCHANGED <<br_pools, br_max>>
    /\ UNCHANGED <<clusterVars, crossVars, titleVars, urlVars, dateVars,
                   tierVars, summaryVars, excludeVars, bestDateVars, similarVars,
                   dedupVars, fetchVars>>

NextBrief == SelectArticlesForBrief

SpecBrief == InitBrief /\ [][NextBrief]_vars


\* the record at a pair of pool and index
BriefRecord(e) == Pools(br_pools)[e[1]][e[2]]

\* s is a subsequence of t: its entries are entries of t, in the order of t
IsSubsequence(s, t) ==
    \E f \in [1..Len(s) -> 1..Len(t)] :
        /\ \A k \in 1..Len(s) : s[k] = t[f[k]]
        /\ \A k \in 1..(Len(s) - 1) : f[k] < f[k + 1]

\* the similarity of the comparison texts of two records is 0.60 or more
BriefSimilar(a, b) ==
    /\ _brief_norm(KeyText(a)) # <<>> /\ _brief_norm(KeyText(b)) # <<>>
    /\ 200 * Matches(_brief_norm(KeyText(a)), _brief_norm(KeyText(b)))
          >= 60 * (Len(_brief_norm(KeyText(a))) + Len(_brief_norm(KeyText(b))))

\* C29: select_articles_for_brief returns at most max_items records, each
\* with a summary, no two with the same NormalizedKey and none 0.60 similar to
\* one returned before it; the records are taken round robin from the pools
\* in the order ACUVUE, Company, Trend, Product, EyeHealth, index i of every
\* pool before index i + 1 of any pool, and what is returned keeps that order
C29_BriefSelection ==
    pc = "brief_done" =>
        /\ Len(br_out) <= br_max
        /\ \A k \in 1..Len(br_out) : BriefRecord(br_out[k]).summary # <<>>
        /\ \A j, k \in 1..Len(br_out) :
              j < k => /\ NormalizedKey(BriefRecord(br_out[j]))
                            # NormalizedKey(BriefRecord(br_out[k]))
                       /\ ~BriefSimilar(BriefRecord(br_out[k]), BriefRecord(br_out[j]))
        /\ \A j, k \in 1..Len(br_selected) :
              j < k => \/ br_selected[j][2] < br_selected[k][2]
                       \/ /\ br_selected[j][2] = br_selected[k][2]
                          /\ br_selected[j][1] < br_selected[k][1]
        /\ IsSubsequence(br_out, br_selected)

\* witness of C29: ten records are asked for; the first pool has two records
\* and a later pool one, which is taken between the two and dropped for its
\* NormalizedKey, that of the first record; the second record of the first
\* pool is dropped for its similarity to the first, which alone is returned
C29_Witness ==
    /\ pc = "brief_done"
    /\ br_max = 10
    /\ \E p, q \in 1..NumPools :
          /\ p < q
          /\ br_selected = <<<<p, 1>>, <<q, 1>>, <<p, 2>>>>
          /\ NormalizedKey(BriefRecord(<<q, 1>>)) = NormalizedKey(BriefRecord(<<p, 1>>))
          /\ NormalizedKey(BriefRecord(<<p, 2>>)) # NormalizedKey(BriefRecord(<<p, 1>>))
          /\ BriefSimilar(BriefRecord(<<p, 2>>), BriefRecord(<<p, 1>>))
          /\ br_out = <<<<p, 1>>>>

-----------------------------------------------------------------------------
(* scrapers.py: orchestration.  SpecFetch: fetch_all_articles, one step for  *)
(* each pair of a source and a keyword.                                     *)

MaxSources == 2      \* news_sources
MaxFetched == 1      \* records one call of a fetcher collects

NaverNews == "NaverNews"

SourceNames == {NaverNews, "Other"}

\* cfg's keywords
KeywordLists == {<<"k1">>, <<"k1", "k2">>}

\* what a call of a fetcher does: it returns the records it collected, or it
\* raises, and what it had collected is lost with its frame
CallOutcomes == [raised : BOOLEAN, got : 0..MaxFetched]

\* a call of a fetcher for the pair at pos, as the attempt number att
Call(pos, via, att, o) ==
    [src |-> pos[1], kw |-> fa_keywords[pos[2]], via |-> via, att |-> att,
     raised |-> o.raised, got |-> o.got]

\* the records a call collected
RecordsOf(call) ==
    [k \in 1..call.got |->
        [src |-> call.src, kw |-> call.kw, via |-> call.via, att |-> call.att, n |-> k]]

\* all_articles += fetcher(...) with the records of a call that raised added
\* all the same
ExtendWithPartial(all, call) == all \o RecordsOf(call)

\* all_articles += fetcher(...): nothing is added when the call raises
Extend(all, call) == IF call.raised THEN all ELSE all \o RecordsOf(call)

\* the fetcher of the first attempt for NaverNews
FirstFetcher == IF fa_creds THEN "openapi" ELSE "html"

\* the pair after pos in "for src in sources: for kw in keywords"
NextPos(pos) ==
    IF pos[2] < Len(fa_keywords) THEN <<pos[1], pos[2] + 1>> ELSE <<pos[1] + 1, 1>>

InitFetch ==
    /\ pc = "fetch_all"
    /\ fa_sources \in SeqsUpTo(SourceNames, MaxSources)
    /\ fa_keywords \in KeywordLists
    /\ fa_creds \in BOOLEAN
    /\ fa_pos = <<1, 1>>
    /\ fa_calls = <<>>
    /\ fa_all = <<>>
    /\ IdleCluster /\ IdleCross /\ IdleTitle /\ IdleUrl /\ IdleDate /\ IdleTier
    /\ IdleSummary /\ IdleExclude /\ IdleBestDate /\ IdleSimilar /\ IdleDedup /\ IdleBrief

FetchFrame ==
    /\ UNCHANGED <<fa_sources, fa_keywords, fa_creds>>
    /\ UNCHANGED <<clusterVars, crossVars, titleVars, urlVars, dateVars,
                   tierVars, summaryVars, excludeVars, bestDateVars, similarVars,
                   dedupVars, briefVars>>

AtPair == pc = "fetch_all" /\ fa_pos[1] <= Len(fa_sources)

\* NaverNews, the try block returns
NaverFirstAttempt ==
    /\ AtPair /\ fa_sources[fa_pos[1]] = NaverNews
    /\ \E o \in CallOutcomes :
          /\ ~o.raised
          /\ fa_calls' = <<Call(fa_pos, FirstFetcher, 1, o)>>
          /\ fa_all' = Extend(fa_all, Call(fa_pos, FirstFetcher, 1, o))
    /\ fa_pos' = NextPos(fa_pos)
    /\ pc' = pc
    /\ FetchFrame

\* NaverNews, the try block raises and the call of the except clause returns
NaverFallback ==
    /\ AtPair /\ fa_sources[fa_pos[1]] = NaverNews
    /\ \E o1, o2 \in CallOutcomes :
          /\ o1.raised /\ ~o2.raised
          /\ fa_calls' = <<Call(fa_pos, FirstFetcher, 1, o1),
                           Call(fa_pos, "html", 2, o2)>>
          /\ fa_all' = Extend(Extend(fa_all, Call(fa_pos, FirstFetcher, 1, o1)),
                              Call(fa_pos, "html", 2, o2))
    /\ fa_pos' = NextPos(fa_pos)
    /\ pc' = pc
    /\ FetchFrame

\* NaverNews, the try block raises and so does the call of the except clause:
\* its exception leaves fetch_all_articles
NaverFallbackRaises ==
    /\ AtPair /\ fa_sources[fa_pos[1]] = NaverNews
    /\ \E o1, o2 \in CallOutcomes :
          /\ o1.raised /\ o2.raised
          /\ fa_calls' = <<Call(fa_pos, FirstFetcher, 1, o1),
                           Call(fa_pos, "html", 2, o2)>>
          /\ fa_all' = Extend(Extend(fa_all, Call(fa_pos, FirstFetcher, 1, o1)),
                              Call(fa_pos, "html", 2, o2))
    /\ pc' = "raised"
    /\ UNCHANGED fa_pos
    /\ FetchFrame

\* any other source: fetch_from_google_news, which catches what it raises
\* for an entry but not what feedparser.parse raises
GoogleNews ==
    /\ AtPair /\ fa_sources[fa_pos[1]] # NaverNews
    /\ \E o \in CallOutcomes :
          /\ fa_calls' = <<Call(fa_pos, "rss", 1, o)>>
          /\ fa_all' = Extend(fa_all, Call(fa_pos, "rss", 1, o))
          /\ pc' = IF o.raised THEN "raised" ELSE pc
          /\ fa_pos' = IF o.raised THEN fa_pos ELSE NextPos(fa_pos)
    /\ FetchFrame

\* return all_articles
ReturnAll ==
    /\ pc = "fetch_all" /\ fa_pos[1] > Len(fa_sources)
    /\ pc' = "returned"
    /\ UNCHANGED <<fa_pos, fa_calls, fa_all>>
    /\ FetchFrame

NextFetch == NaverFirstAttempt \/ NaverFallback \/ NaverFallbackRaises \/ GoogleNews \/ ReturnAll

SpecFetch == InitFetch /\ [][NextFetch]_vars


\* the calls a step makes
NewCalls == fa_calls'

\* the records a step adds to all_articles, those before them being kept
NewRecords == SubSeq(fa_all', Len(fa_all) + 1, Len(fa_all'))

EarlierRetained ==
    Len(fa_all') >= Len(fa_all) /\ SubSeq(fa_all', 1, Len(fa_all)) = fa_all

\* what the loops do for a pair of NaverNews and a keyword
NaverPairStep ==
    /\ EarlierRetained
    /\ Len(NewCalls) >= 1
    /\ NewCalls[1].via = (IF fa_creds THEN "openapi" ELSE "html")
    /\ NewCalls[1].kw = fa_keywords[fa_pos[2]]
    /\ IF NewCalls[1].raised
       THEN /\ \A k \in 1..Len(NewRecords) : NewRecords[k].att # 1
            /\ Len(NewCalls) = 2
            /\ NewCalls[2].via = "html" /\ NewCalls[2].kw = fa_keywords[fa_pos[2]]
            /\ IF NewCalls[2].raised
               THEN pc' = "raised" /\ NewRecords = <<>>
               ELSE pc' = "fetch_all" /\ Len(NewRecords) = NewCalls[2].got
       ELSE Len(NewCalls) = 1 /\ Len(NewRecords) = NewCalls[1].got

\* C30: for a pair of NaverNews and a keyword, when the first attempt (the
\* OpenAPI with credentials, the HTML scraper without) raises, none of its
\* records is added, the HTML scraper is called once more for the keyword,
\* and the records of earlier pairs are kept; when that call raises too the
\* exception leaves fetch_all_articles, which does nothing more
C30_NaverFallback ==
    [][/\ pc # "raised"
       /\ (pc = "fetch_all" /\ fa_pos[1] <= Len(fa_sources)
           /\ fa_sources[fa_pos[1]] = "NaverNews") => NaverPairStep]_vars

\* witness of C30: with credentials, after a pair that gave a record, the
\* OpenAPI call of the last pair raised with a record collected, the HTML
\* scraper was called for the same keyword and gave a record, and
\* fetch_all_articles has returned the two records
C30_Witness ==
    /\ pc = "returned"
    /\ fa_creds
    /\ Len(fa_calls) = 2
    /\ fa_calls[1].via = "openapi" /\ fa_calls[1].raised /\ fa_calls[1].got = 1
    /\ fa_calls[2].via = "html" /\ ~fa_calls[2].raised /\ fa_calls[2].got = 1
    /\ fa_calls[2].kw = fa_calls[1].kw /\ fa_calls[2].src = fa_calls[1].src
    /\ Len(fa_all) = 2
    /\ <<fa_all[1].src, fa_all[1].kw>> # <<fa_calls[1].src, fa_calls[1].kw>>
    /\ fa_all[2].via = "html" /\ fa_all[2].att = 2
=============================================================================
